---- MODULE Spec2Model ----
(***************************************************************************)
(* A model of the anvil key-derivation and address-encoding engine.        *)
(*                                                                         *)
(* Strings are sequences of one-character strings, byte slices are         *)
(* sequences of 0..255, and a uint32 is a pair of 16-bit limbs so that the *)
(* 32-bit width of the Go code (parse range, wrap-around of +2^31) is kept *)
(* exactly.                                                                *)
(***************************************************************************)
EXTENDS Integers, Sequences, FiniteSets, TLC

VARIABLES
    pc,         \* position of the caller
    path,       \* the path string handed to the calls
    seed,       \* the seed handed to the calls
    parsed,     \* result of ParseDerivationPath
    formatted,  \* result of DerivationPath.String
    derived,    \* result of DeriveKey
    coin,       \* symbol of the coin whose DeriveAccount is called
    acct,       \* result of DeriveAccount
    candidate,  \* the address string handed to the validators
    verdicts,   \* pairs of a coin and the result of its ValidateAddress(candidate)
    cks,        \* results of the successive toChecksumAddress calls
    calls,      \* the other calls made so far, each with its arguments and results
    input,      \* the arguments and the outcomes of the environment chosen for those calls
    wallet,     \* the types.Wallet handed to the output generator
    heap        \* the secret buffers of the derivation calls, with their present bytes

vars == <<pc, path, seed, parsed, formatted, derived, coin, acct, candidate, verdicts, cks, calls, input, wallet, heap>>

(***************************************************************************)
(* Bounds of the explored input space.                                     *)
(***************************************************************************)
\* largest number of slash-separated components of a generated path
MaxParts == 6
\* largest number of components of a generated path that deviate from the
\* well-formed component of their position
MaxOdd == 2
\* number of distinct seeds
NumSeeds == 3

(***************************************************************************)
(* strings                                                                 *)
(***************************************************************************)
HasPrefix(s, p) == Len(s) >= Len(p) /\ SubSeq(s, 1, Len(p)) = p

HasSuffix(s, p) == Len(s) >= Len(p) /\ SubSeq(s, Len(s) - Len(p) + 1, Len(s)) = p

\* s[n:] of Go, n counted in bytes from 0
SliceFrom(s, n) == SubSeq(s, n + 1, Len(s))

\* index (from 1) of the first occurrence of the character c in s, 0 if none
IndexByte(s, c) ==
    IF \E i \in 1..Len(s) : s[i] = c
    THEN CHOOSE i \in 1..Len(s) : s[i] = c /\ \A j \in 1..(i - 1) : s[j] # c
    ELSE 0

RECURSIVE Split(_, _)
\* strings.Split for a one-character separator: one more part than separators
Split(s, sep) ==
    LET i == IndexByte(s, sep)
    IN  IF i = 0 THEN <<s>>
        ELSE <<SubSeq(s, 1, i - 1)>> \o Split(SubSeq(s, i + 1, Len(s)), sep)

RECURSIVE Join(_, _)
Join(parts, sep) ==
    IF Len(parts) = 0 THEN <<>>
    ELSE IF Len(parts) = 1 THEN parts[1]
    ELSE parts[1] \o <<sep>> \o Join(Tail(parts), sep)

(***************************************************************************)
(* uint32 as two 16-bit limbs                                              *)
(***************************************************************************)
Limb == 65536

U32(h, l) == [hi |-> h, lo |-> l]

Zero32 == U32(0, 0)

\* bip32.FirstHardenedChild = 0x80000000
FirstHardenedChild == U32(32768, 0)

\* uint32 addition of the Go code: the sum wraps modulo 2^32
Add32(a, b) ==
    LET l == a.lo + b.lo
        h == a.hi + b.hi + (l \div Limb)
    IN  U32(h % Limb, l % Limb)

GeqU32(a, b) == a.hi > b.hi \/ (a.hi = b.hi /\ a.lo >= b.lo)

DigitChars == <<"0", "1", "2", "3", "4", "5", "6", "7", "8", "9">>

IsDigit(c) == \E d \in 1..10 : DigitChars[d] = c

DigitVal(c) == (CHOOSE d \in 1..10 : DigitChars[d] = c) - 1

RECURSIVE ParseUintLoop_NoRange(_, _, _)
\* ParseUintLoop without the range check: the value wraps modulo 2^32
ParseUintLoop_NoRange(s, i, n) ==
    IF i > Len(s) THEN [err |-> FALSE, val |-> n]
    ELSE IF ~IsDigit(s[i]) THEN [err |-> TRUE, val |-> Zero32]
    ELSE LET l == n.lo * 10 + DigitVal(s[i])
             h == n.hi * 10 + (l \div Limb)
         IN  ParseUintLoop_NoRange(s, i + 1, U32(h % Limb, l % Limb))

RECURSIVE ParseUintLoop(_, _, _)
\* the digit loop of strconv.ParseUint(s, 10, 32): a character that is not a
\* decimal digit is a syntax error, a value above 2^32-1 is a range error
ParseUintLoop(s, i, n) ==
    IF i > Len(s) THEN [err |-> FALSE, val |-> n]
    ELSE IF ~IsDigit(s[i]) THEN [err |-> TRUE, val |-> Zero32]
    ELSE LET l == n.lo * 10 + DigitVal(s[i])
             h == n.hi * 10 + (l \div Limb)
         IN  IF h >= Limb THEN [err |-> TRUE, val |-> U32(Limb - 1, Limb - 1)]
             ELSE ParseUintLoop(s, i + 1, U32(h, l % Limb))

ParseUint(s) ==
    IF Len(s) = 0 THEN [err |-> TRUE, val |-> Zero32]
    ELSE ParseUintLoop(s, 1, Zero32)

RECURSIVE FormatUintLoop(_)
FormatUintLoop(n) ==
    IF n = Zero32 THEN <<>>
    ELSE LET t == (n.hi % 10) * Limb + n.lo
         IN  FormatUintLoop(U32(n.hi \div 10, t \div 10)) \o <<DigitChars[(t % 10) + 1]>>

\* the %d verb of fmt.Sprintf applied to a uint32
FormatUint(n) == IF n = Zero32 THEN <<"0">> ELSE FormatUintLoop(n)

(***************************************************************************)
(* derivation paths                                                        *)
(***************************************************************************)
\* types.DerivationPath{}
ZeroPath == [Purpose |-> Zero32, CoinType |-> Zero32, Account |-> Zero32,
             Change |-> Zero32, Index |-> Zero32]

\* parsePathComponent without the check that rejects a marker on a component
\* that must not be hardened
parsePathComponent_NoPlainCheck(component, shouldBeHardened) ==
    LET isHardened == HasSuffix(component, <<"'">>)
        numStr == IF isHardened THEN SubSeq(component, 1, Len(component) - 1)
                  ELSE component
        r == ParseUint(numStr)
    IN  IF shouldBeHardened /\ ~isHardened THEN [err |-> TRUE, val |-> Zero32]
        ELSE IF r.err THEN [err |-> TRUE, val |-> Zero32]
        ELSE [err |-> FALSE, val |-> r.val]

parsePathComponent(component, shouldBeHardened) ==
    LET isHardened == HasSuffix(component, <<"'">>)
        numStr == IF isHardened THEN SubSeq(component, 1, Len(component) - 1)
                  ELSE component
        r == ParseUint(numStr)
    IN  IF shouldBeHardened /\ ~isHardened THEN [err |-> TRUE, val |-> Zero32]
        ELSE IF ~shouldBeHardened /\ isHardened THEN [err |-> TRUE, val |-> Zero32]
        ELSE IF r.err THEN [err |-> TRUE, val |-> Zero32]
        ELSE [err |-> FALSE, val |-> r.val]

ParseDerivationPath(p) ==
    LET fail == [err |-> TRUE, dp |-> ZeroPath]
    IN  IF ~HasPrefix(p, <<"m", "/">>) THEN fail
        ELSE LET parts == Split(SliceFrom(p, 2), "/")
             IN  IF Len(parts) # 5 THEN fail
                 ELSE LET purpose == parsePathComponent(parts[1], TRUE)
                          coinType == parsePathComponent(parts[2], TRUE)
                          account == parsePathComponent(parts[3], TRUE)
                          change == parsePathComponent(parts[4], FALSE)
                          index == parsePathComponent(parts[5], FALSE)
                      IN  IF purpose.err THEN fail
                          ELSE IF coinType.err THEN fail
                          ELSE IF account.err THEN fail
                          ELSE IF change.err THEN fail
                          ELSE IF index.err THEN fail
                          ELSE [err |-> FALSE,
                                dp |-> [Purpose |-> purpose.val,
                                        CoinType |-> coinType.val,
                                        Account |-> account.val,
                                        Change |-> change.val,
                                        Index |-> index.val]]

\* DerivationPath.String: "m/%d'/%d'/%d'/%d/%d"
String(dp) ==
    <<"m", "/">> \o FormatUint(dp.Purpose) \o <<"'", "/">>
        \o FormatUint(dp.CoinType) \o <<"'", "/">>
        \o FormatUint(dp.Account) \o <<"'", "/">>
        \o FormatUint(dp.Change) \o <<"/">>
        \o FormatUint(dp.Index)

(***************************************************************************)
(* stand-ins for the cryptographic primitives of the libraries             *)
(*                                                                         *)
(* HMAC-SHA512 and the secp256k1 group are replaced by small deterministic *)
(* functions: a scalar is a number below CurveOrder, the left half of an   *)
(* HMAC output is a number in 0..ScalarSpace-1 (so that it can be zero or  *)
(* not below the order, as a 256-bit string can), and a chain code is a    *)
(* number in 0..255.                                                       *)
(***************************************************************************)
\* order of the scalar group (secp256k1 N in the libraries)
CurveOrder == 13

\* number of values of the left half of an HMAC output (2^256 in the libraries)
ScalarSpace == 16

RECURSIVE MixRange(_, _, _)
\* a digest of xs[lo..hi] in 0..65520, every element weighted by its position
MixRange(xs, lo, hi) ==
    IF lo > hi THEN 7
    ELSE IF lo = hi THEN ((xs[lo] + 1) * (((lo * lo) % 251) + 1)) % 65521
    ELSE LET mid == (lo + hi) \div 2
         IN  (MixRange(xs, lo, mid) * 31 + MixRange(xs, mid + 1, hi) + 11) % 65521

Mix(xs) == MixRange(xs, 1, Len(xs))

\* hmac.New(sha512.New, key) over data: (IL, IR)
HmacSha512(hkey, msg) ==
    LET h == Mix(<<Mix(hkey)>> \o msg)
    IN  [IL |-> h % ScalarSpace, IR |-> (h \div ScalarSpace) % 256]

\* bip32 validatePrivateKey: the zero key and keys not below the order are invalid
validatePrivateKey(k) == k # 0 /\ k < CurveOrder

\* the public point of a private scalar (scalar multiplication of the base point)
PubPoint(k) == (k * 5) % CurveOrder

\* ser32(i): the four big-endian bytes of a uint32
Ser32(i) == <<i.hi \div 256, i.hi % 256, i.lo \div 256, i.lo % 256>>

\* the 64 bytes of seed number s
SeedBytes(s) == [i \in 1..64 |-> (s * 41 + i * 7) % 256]

Seeds == {SeedBytes(s) : s \in 1..NumSeeds}

\* the HMAC key "Bitcoin seed" of bip32.NewMasterKey
BitcoinSeedKey == <<66, 105, 116, 99, 111, 105, 110, 32, 115, 101, 101, 100>>

NoKey == [Key |-> 0, ChainCode |-> 0]

\* bip32.NewMasterKey
NewMasterKey(sd) ==
    LET hm == HmacSha512(BitcoinSeedKey, sd)
    IN  IF ~validatePrivateKey(hm.IL) THEN [err |-> TRUE, key |-> NoKey]
        ELSE [err |-> FALSE, key |-> [Key |-> hm.IL, ChainCode |-> hm.IR]]

\* whether bip32 derives child index idx by the hardened rule
IsHardenedIndex(idx) == GeqU32(idx, FirstHardenedChild)

\* Key.NewChildKey of a private key: the HMAC input is 0x00 || key || ser32(idx)
\* for idx >= FirstHardenedChild and serP(pub) || ser32(idx) below it
NewChildKey(key, childIdx) ==
    LET data == IF IsHardenedIndex(childIdx)
                THEN <<0, key.Key>> \o Ser32(childIdx)
                ELSE <<2 + (PubPoint(key.Key) % 2), PubPoint(key.Key)>> \o Ser32(childIdx)
        hm == HmacSha512(<<key.ChainCode>>, data)
        child == (hm.IL + key.Key) % CurveOrder
    IN  IF ~validatePrivateKey(child) THEN [err |-> TRUE, key |-> NoKey]
        ELSE [err |-> FALSE, key |-> [Key |-> child, ChainCode |-> hm.IR]]

RECURSIVE WalkPath(_, _, _)
\* the five NewChildKey steps of DeriveKey; idxs are the child indexes in
\* order, done the indexes already handed to NewChildKey
WalkPath(key, idxs, done) ==
    IF Len(idxs) = 0 THEN [err |-> FALSE, key |-> key, steps |-> done]
    ELSE LET r == NewChildKey(key, Head(idxs))
         IN  IF r.err THEN [err |-> TRUE, key |-> NoKey, steps |-> Append(done, Head(idxs))]
             ELSE WalkPath(r.key, Tail(idxs), Append(done, Head(idxs)))

DeriveKey(sd, p) ==
    LET derivePath == ParseDerivationPath(p)
        masterKey == NewMasterKey(sd)
        dp == derivePath.dp
    IN  IF derivePath.err THEN [err |-> TRUE, key |-> NoKey, steps |-> <<>>]
        ELSE IF masterKey.err THEN [err |-> TRUE, key |-> NoKey, steps |-> <<>>]
        ELSE WalkPath(masterKey.key,
                      <<Add32(dp.Purpose, FirstHardenedChild),
                        Add32(dp.CoinType, FirstHardenedChild),
                        Add32(dp.Account, FirstHardenedChild),
                        dp.Change,
                        dp.Index>>,
                      <<>>)

(***************************************************************************)
(* characters and bytes                                                    *)
(***************************************************************************)
\* the ASCII characters 33..126 in order; the grave accent (96) is spelled out
Printable ==
    << "!", "\"", "#", "$", "%", "&", "'", "(", ")", "*", "+", ",", "-", ".", "/", "0",
       "1", "2", "3", "4", "5", "6", "7", "8", "9", ":", ";", "<", "=", ">", "?", "@",
       "A", "B", "C", "D", "E", "F", "G", "H", "I", "J", "K", "L", "M", "N", "O", "P",
       "Q", "R", "S", "T", "U", "V", "W", "X", "Y", "Z", "[", "\\", "]", "^", "_", "grave",
       "a", "b", "c", "d", "e", "f", "g", "h", "i", "j", "k", "l", "m", "n", "o", "p",
       "q", "r", "s", "t", "u", "v", "w", "x", "y", "z", "{", "|", "}", "~" >>

\* the byte of a character: an ASCII character, or one of the two bytes xC3 and
\* xA9 of the UTF-8 form of U+00E9
Ord(c) ==
    IF c = "xC3" THEN 195
    ELSE IF c = "xA9" THEN 169
    ELSE (CHOOSE k \in 1..Len(Printable) : Printable[k] = c) + 32

Chr(b) == Printable[b - 32]

IsUpper(c) == Ord(c) >= 65 /\ Ord(c) <= 90

IsLower(c) == Ord(c) >= 97 /\ Ord(c) <= 122

ToLowerChar(c) == IF IsUpper(c) THEN Chr(Ord(c) + 32) ELSE c

ToUpperChar(c) == IF IsLower(c) THEN Chr(Ord(c) - 32) ELSE c

\* strings.ToLower
ToLower(s) == [i \in 1..Len(s) |-> ToLowerChar(s[i])]

\* []byte(s)
StringBytes(s) == [i \in 1..Len(s) |-> Ord(s[i])]

\* 0-9, a-f, A-F
IsHexChar(c) ==
    \/ IsDigit(c)
    \/ (Ord(c) >= 97 /\ Ord(c) <= 102)
    \/ (Ord(c) >= 65 /\ Ord(c) <= 70)

HexVal(c) ==
    IF IsDigit(c) THEN DigitVal(c)
    ELSE IF IsLower(c) THEN Ord(c) - 87
    ELSE Ord(c) - 55

HexDigits == <<"0", "1", "2", "3", "4", "5", "6", "7", "8", "9", "a", "b", "c", "d", "e", "f">>

\* hex.EncodeToString and the %x verb: two lowercase digits per byte
HexEncode(bs) ==
    [i \in 1..(2 * Len(bs)) |->
        IF i % 2 = 1 THEN HexDigits[(bs[(i + 1) \div 2] \div 16) + 1]
        ELSE HexDigits[(bs[i \div 2] % 16) + 1]]

\* hex.DecodeString of a string of hex digits of even length
HexDecode(s) ==
    [i \in 1..(Len(s) \div 2) |-> HexVal(s[2 * i - 1]) * 16 + HexVal(s[2 * i])]

ZeroBytes(n) == [i \in 1..n |-> 0]

\* number of leading elements of s equal to x
RECURSIVE LeadingCount(_, _)
LeadingCount(s, x) ==
    IF Len(s) > 0 /\ s[1] = x THEN 1 + LeadingCount(Tail(s), x) ELSE 0

(***************************************************************************)
(* Base58 (btcsuite base58 and mr-tron base58), on big-endian magnitudes   *)
(***************************************************************************)
Base58Alphabet ==
    << "1", "2", "3", "4", "5", "6", "7", "8", "9", "A", "B", "C", "D", "E", "F", "G",
       "H", "J", "K", "L", "M", "N", "P", "Q", "R", "S", "T", "U", "V", "W", "X", "Y",
       "Z", "a", "b", "c", "d", "e", "f", "g", "h", "i", "j", "k", "m", "n", "o", "p",
       "q", "r", "s", "t", "u", "v", "w", "x", "y", "z" >>

\* the digit of a character, -1 for a character outside the alphabet
B58Digit(c) ==
    IF \E k \in 1..58 : Base58Alphabet[k] = c
    THEN (CHOOSE k \in 1..58 : Base58Alphabet[k] = c) - 1
    ELSE -1

RECURSIVE MulAdd(_, _, _)
\* mag * m + c for a magnitude without leading zero bytes, m and c below 256
MulAdd(mag, m, c) ==
    IF Len(mag) = 0 THEN (IF c = 0 THEN <<>> ELSE <<c>>)
    ELSE LET t == mag[Len(mag)] * m + c
         IN  MulAdd(SubSeq(mag, 1, Len(mag) - 1), m, t \div 256) \o <<t % 256>>

RECURSIVE DivMod(_, _, _, _)
\* long division of the bytes mag[i..] by m with the running remainder r:
\* the quotient bytes (of the same length) and the remainder
DivMod(mag, i, m, r) ==
    IF i > Len(mag) THEN [q |-> <<>>, r |-> r]
    ELSE LET t == r * 256 + mag[i]
             rest == DivMod(mag, i + 1, m, t % m)
         IN  [q |-> <<t \div m>> \o rest.q, r |-> rest.r]

StripZeroBytes(bs) == SubSeq(bs, LeadingCount(bs, 0) + 1, Len(bs))

RECURSIVE B58Value(_, _, _)
\* the magnitude of the digits s[i..], continuing from acc
B58Value(s, i, acc) ==
    IF i > Len(s) THEN acc
    ELSE B58Value(s, i + 1, MulAdd(acc, 58, B58Digit(s[i])))

RECURSIVE B58Digits(_)
\* the Base58 digits of a magnitude, most significant first
B58Digits(mag) ==
    IF Len(mag) = 0 THEN <<>>
    ELSE LET d == DivMod(mag, 1, 58, 0)
         IN  B58Digits(StripZeroBytes(d.q)) \o <<Base58Alphabet[d.r + 1]>>

\* base58.Encode: one "1" per leading zero byte, then the digits of the rest
Base58Encode(bs) ==
    [i \in 1..LeadingCount(bs, 0) |-> "1"] \o B58Digits(StripZeroBytes(bs))

\* btcsuite base58.Decode: the empty slice for a string with a character
\* outside the alphabet, else one zero byte per leading "1", then the magnitude
Base58Decode(s) ==
    IF \E i \in 1..Len(s) : B58Digit(s[i]) = -1 THEN <<>>
    ELSE ZeroBytes(LeadingCount(s, "1")) \o B58Value(s, 1, <<>>)

\* mr-tron base58.Decode: an error for the empty string and for a character
\* outside the alphabet
Base58DecodeChecked(s) ==
    IF Len(s) = 0 \/ \E i \in 1..Len(s) : B58Digit(s[i]) = -1
    THEN [err |-> TRUE, bytes |-> <<>>]
    ELSE [err |-> FALSE, bytes |-> ZeroBytes(LeadingCount(s, "1")) \o B58Value(s, 1, <<>>)]

(***************************************************************************)
(* stand-ins for the hash functions: 32 bytes, a deterministic function of *)
(* the input and of a tag that tells the hash functions apart              *)
(***************************************************************************)
DigestBytes(tag, bs) ==
    LET m == Mix(<<tag>> \o bs)
    IN  [i \in 1..32 |-> ((((m + i) * (2 * i + 131)) \div 3) + i * m) % 256]

\* sha256.Sum256
Sha256(bs) == DigestBytes(1, bs)

\* ethcrypto.Keccak256
Keccak256(bs) == DigestBytes(2, bs)

\* doubleSHA256 of the TRON package, crypto.Hash256 and the checksum of Base58Check
doubleSHA256(bs) == Sha256(Sha256(bs))

(***************************************************************************)
(* sizes.  The byte strings of the address codecs are modelled at a        *)
(* reduced size: AddressLength stands for the 20 bytes of a hash160 and of *)
(* an Ethereum address, KeySize32 for the 32 bytes of an ed25519 public    *)
(* key and of a witness script hash.  The checksum length is the program's *)
(***************************************************************************)
AddressLength == 2

KeySize32 == 9

\* the four checksum bytes of Base58Check and of a TRON address
ChecksumLen == 4

LastIndexByte(s, c) ==
    IF \E i \in 1..Len(s) : s[i] = c
    THEN (CHOOSE i \in 1..Len(s) : s[i] = c /\ \A j \in (i + 1)..Len(s) : s[j] # c) - 1
    ELSE -1

\* strings.TrimPrefix
TrimPrefix(s, p) == IF HasPrefix(s, p) THEN SliceFrom(s, Len(p)) ELSE s

(***************************************************************************)
(* Ethereum family (ETH, BNB)                                              *)
(***************************************************************************)
\* common.IsHexAddress: an optional 0x or 0X, then 2*AddressLength hex digits
IsHexAddress(s) ==
    LET body == IF Len(s) >= 2 /\ s[1] = "0" /\ (s[2] = "x" \/ s[2] = "X")
                THEN SliceFrom(s, 2) ELSE s
    IN  Len(body) = 2 * AddressLength /\ \A i \in 1..Len(body) : IsHexChar(body[i])

\* character i (from 0) of the hex form of a 32-byte hash
HashHexChar(hash, i) ==
    IF i % 2 = 0 THEN HexDigits[(hash[(i \div 2) + 1] \div 16) + 1]
    ELSE HexDigits[(hash[(i \div 2) + 1] % 16) + 1]

\* the variant of toChecksumAddress that does not lowercase its input
toChecksumAddress_NoLower(address) ==
    LET lower == TrimPrefix(address, <<"0", "x">>)
        hash == Keccak256(StringBytes(lower))
    IN  IF Len(lower) > 64 THEN "panic"
        ELSE <<"0", "x">> \o
             [i \in 1..Len(lower) |->
                 IF IsDigit(lower[i]) THEN lower[i]
                 ELSE IF Ord(HashHexChar(hash, i - 1)) >= Ord("8")
                      THEN ToUpperChar(lower[i])
                      ELSE lower[i]]

\* EthereumCoin.toChecksumAddress; hashHex has 64 characters, so indexing it
\* panics for an input of more than 64 characters
toChecksumAddress(address) ==
    LET lower == ToLower(TrimPrefix(address, <<"0", "x">>))
        hash == Keccak256(StringBytes(lower))
    IN  IF Len(lower) > 64 THEN "panic"
        ELSE <<"0", "x">> \o
             [i \in 1..Len(lower) |->
                 IF IsDigit(lower[i]) THEN lower[i]
                 ELSE IF Ord(HashHexChar(hash, i - 1)) >= Ord("8")
                      THEN ToUpperChar(lower[i])
                      ELSE lower[i]]

\* EthereumCoin.isValidChecksum
isValidChecksum(address) == address = toChecksumAddress(address)

\* the variant of hasMixedCase that reports every address with an uppercase letter
hasMixedCase_UpperOnly(address) ==
    LET body == TrimPrefix(address, <<"0", "x">>)
    IN  \E i \in 1..Len(body) : Ord(body[i]) >= 65 /\ Ord(body[i]) <= 70

\* EthereumCoin.hasMixedCase
hasMixedCase(address) ==
    LET body == TrimPrefix(address, <<"0", "x">>)
    IN  /\ \E i \in 1..Len(body) : Ord(body[i]) >= 65 /\ Ord(body[i]) <= 70
        /\ \E i \in 1..Len(body) : Ord(body[i]) >= 97 /\ Ord(body[i]) <= 102

\* EthereumCoin.ValidateAddress
EthValidateAddress(address) ==
    IF ~HasPrefix(address, <<"0", "x">>) THEN FALSE
    ELSE IF ~IsHexAddress(address) THEN FALSE
    ELSE IF hasMixedCase(address) THEN isValidChecksum(address)
    ELSE TRUE

(***************************************************************************)
(* TRON                                                                    *)
(***************************************************************************)
\* the 0x41 prefix byte of a TRON address
TronPrefix == 65

\* prefix byte and address bytes (21 in the program)
TronPayloadLen == 1 + AddressLength

\* the decoded size of a TRON address (25 in the program)
TronAddressLen == TronPayloadLen + ChecksumLen

\* the variant of ValidateAddress that compares one checksum byte fewer
TronValidateAddress_ShortLoop(address) ==
    LET decoded == Base58Decode(address)
        addressBytes == SubSeq(decoded, 1, TronPayloadLen)
        providedChecksum == SubSeq(decoded, TronPayloadLen + 1, Len(decoded))
        expectedChecksum == doubleSHA256(addressBytes)
    IN  IF Len(decoded) # TronAddressLen THEN FALSE
        ELSE IF addressBytes[1] # TronPrefix THEN FALSE
        ELSE \A i \in 1..(ChecksumLen - 1) : providedChecksum[i] = expectedChecksum[i]

\* TronCoin.ValidateAddress
TronValidateAddress(address) ==
    LET decoded == Base58Decode(address)
        addressBytes == SubSeq(decoded, 1, TronPayloadLen)
        providedChecksum == SubSeq(decoded, TronPayloadLen + 1, Len(decoded))
        expectedChecksum == doubleSHA256(addressBytes)
    IN  IF Len(decoded) # TronAddressLen THEN FALSE
        ELSE IF addressBytes[1] # TronPrefix THEN FALSE
        ELSE \A i \in 1..ChecksumLen : providedChecksum[i] = expectedChecksum[i]

(***************************************************************************)
(* Solana                                                                  *)
(***************************************************************************)
\* SolanaCoin.ValidateAddress
SolValidateAddress(address) ==
    LET decoded == Base58DecodeChecked(address)
    IN  IF decoded.err THEN FALSE
        ELSE Len(decoded.bytes) = KeySize32

(***************************************************************************)
(* Bitcoin family (BTC, DOGE): btcutil.DecodeAddress                       *)
(***************************************************************************)
\* chaincfg.MainNetParams, as far as DecodeAddress reads it
MainNetParams == [PubKeyHashAddrID |-> 0, ScriptHashAddrID |-> 5]

\* the parameters NewDogecoin builds from a copy of MainNetParams
DogecoinParams == [MainNetParams EXCEPT !.PubKeyHashAddrID = 30, !.ScriptHashAddrID = 22]

\* the first ChecksumLen bytes of the double SHA-256 of Base58Check
B58Checksum(bs) == SubSeq(doubleSHA256(bs), 1, ChecksumLen)

\* base58.CheckEncode
CheckEncode(payload, version) ==
    Base58Encode(<<version>> \o payload \o B58Checksum(<<version>> \o payload))

\* base58.CheckDecode
CheckDecode(s) ==
    LET decoded == Base58Decode(s)
        n == Len(decoded)
    IN  IF n < 1 + ChecksumLen THEN [err |-> TRUE, payload |-> <<>>, version |-> 0]
        ELSE IF B58Checksum(SubSeq(decoded, 1, n - ChecksumLen)) # SubSeq(decoded, n - ChecksumLen + 1, n)
             THEN [err |-> TRUE, payload |-> <<>>, version |-> 0]
        ELSE [err |-> FALSE, payload |-> SubSeq(decoded, 2, n - ChecksumLen), version |-> decoded[1]]

\* the bech32 character set; a character stands for its index from 0
Bech32Charset ==
    << "q", "p", "z", "r", "y", "9", "x", "8", "g", "f", "2", "t", "v", "d", "w", "0",
       "s", "3", "j", "n", "5", "4", "k", "h", "c", "e", "6", "m", "u", "a", "7", "l" >>

Bech32Val(c) ==
    IF \E k \in 1..32 : Bech32Charset[k] = c
    THEN (CHOOSE k \in 1..32 : Bech32Charset[k] = c) - 1
    ELSE -1

\* the tags of the two checksum constants, bech32 (BIP 173) and bech32m (BIP 350)
Version0 == 1

VersionM == 2

\* length of a bech32 checksum, in characters
Bech32ChecksumLen == 6

\* stand-in for the bech32 checksum of a prefix and 5-bit values under a constant
Bech32Checksum(prefix, vals, enc) ==
    LET m == Mix(<<enc>> \o StringBytes(prefix) \o <<0>> \o vals)
    IN  [i \in 1..Bech32ChecksumLen |-> (((m + 3) * (2 * i + 5)) \div 7) % 32]

\* bit j (from 1) of a sequence of groups of w bits, 0 past its end
BitOf(groups, w, j) ==
    IF j > w * Len(groups) THEN 0
    ELSE (groups[((j - 1) \div w) + 1] \div (2 ^ (w - 1 - ((j - 1) % w)))) % 2

\* the group of w bits that starts at bit j
GroupAt(groups, fromW, j, w) ==
    LET Bit(b) == BitOf(groups, fromW, j + b) * (2 ^ (w - 1 - b))
    IN  IF w = 8
        THEN Bit(0) + Bit(1) + Bit(2) + Bit(3) + Bit(4) + Bit(5) + Bit(6) + Bit(7)
        ELSE Bit(0) + Bit(1) + Bit(2) + Bit(3) + Bit(4)

\* bech32.ConvertBits(data, 5, 8, false): the incomplete last group must have
\* at most four bits, all zero
ConvertBits5to8(values) ==
    LET nbits == 5 * Len(values)
        n == nbits \div 8
    IN  IF nbits % 8 >= 5 \/ \E j \in (8 * n + 1)..nbits : BitOf(values, 5, j) # 0
        THEN [err |-> TRUE, bytes |-> <<>>]
        ELSE [err |-> FALSE, bytes |-> [i \in 1..n |-> GroupAt(values, 5, 8 * (i - 1) + 1, 8)]]

\* bech32.ConvertBits(data, 8, 5, true): the last group is padded with zero bits
ConvertBits8to5(bs) ==
    [i \in 1..((8 * Len(bs) + 4) \div 5) |-> GroupAt(bs, 8, 5 * (i - 1) + 1, 5)]

\* bech32.DecodeGeneric
Bech32Decode(bech) ==
    LET failed == [err |-> TRUE, hrp |-> <<>>, data |-> <<>>, version |-> 0]
        lower == ToLower(bech)
        upper == [i \in 1..Len(bech) |-> ToUpperChar(bech[i])]
        one == LastIndexByte(lower, "1")
        hrp == SubSeq(lower, 1, one)
        chars == SliceFrom(lower, one + 1)
        values == [i \in 1..Len(chars) |-> Bech32Val(chars[i])]
        payload == SubSeq(values, 1, Len(values) - Bech32ChecksumLen)
        checksum == SubSeq(values, Len(values) - Bech32ChecksumLen + 1, Len(values))
    IN  IF Len(bech) < 8 \/ Len(bech) > 90 THEN failed
        ELSE IF bech # lower /\ bech # upper THEN failed
        ELSE IF one < 1 \/ one + 7 > Len(bech) THEN failed
        ELSE IF \E i \in 1..Len(values) : values[i] = -1 THEN failed
        ELSE IF checksum = Bech32Checksum(hrp, payload, Version0)
             THEN [err |-> FALSE, hrp |-> hrp, data |-> payload, version |-> Version0]
        ELSE IF checksum = Bech32Checksum(hrp, payload, VersionM)
             THEN [err |-> FALSE, hrp |-> hrp, data |-> payload, version |-> VersionM]
        ELSE failed

\* decodeSegWitAddress of btcutil: witness version and witness program
decodeSegWitAddress(address) ==
    LET failed == [err |-> TRUE, version |-> 0, program |-> <<>>]
        dec == Bech32Decode(address)
        regrouped == ConvertBits5to8(Tail(dec.data))
        version == dec.data[1]
    IN  IF dec.err THEN failed
        ELSE IF Len(dec.data) < 1 THEN failed
        ELSE IF version > 16 THEN failed
        ELSE IF regrouped.err THEN failed
        ELSE IF version = 0 /\ Len(regrouped.bytes) # AddressLength /\ Len(regrouped.bytes) # KeySize32
             THEN failed
        ELSE IF version = 0 /\ dec.version # Version0 THEN failed
        ELSE IF version # 0 /\ dec.version # VersionM THEN failed
        ELSE [err |-> FALSE, version |-> version, program |-> regrouped.bytes]

\* the segwit address prefixes registered with chaincfg: mainnet, testnet,
\* regression test and simulation networks
Bech32SegwitPrefixes ==
    { <<"b", "c", "1">>, <<"t", "b", "1">>, <<"b", "c", "r", "t", "1">>, <<"s", "b", "1">> }

\* chaincfg.IsBech32SegwitPrefix
IsBech32SegwitPrefix(prefix) == ToLower(prefix) \in Bech32SegwitPrefixes

(***************************************************************************)
(* public keys of the stand-in curve: a point is a number of               *)
(* 1..CurveOrder-1, a point and its negation share their X coordinate      *)
(***************************************************************************)
\* the 32 big-endian bytes of a private scalar
KeyBytes(k) == [i \in 1..32 |-> IF i = 32 THEN k ELSE 0]

NegPoint(p) == CurveOrder - p

XBytes(p) == DigestBytes(5, <<IF p < NegPoint(p) THEN p ELSE NegPoint(p)>>)

\* the Y coordinates of a point and of its negation differ in parity
YBytes(p) ==
    [DigestBytes(6, <<IF p < NegPoint(p) THEN p ELSE NegPoint(p)>>) EXCEPT ![32] = 2 * (@ \div 2) + (p % 2)]

\* PublicKey.SerializeCompressed: 0x02 or 0x03 by the parity of Y, then X
SerializeCompressed(p) == <<2 + (YBytes(p)[32] % 2)>> \o XBytes(p)

\* ethcrypto.FromECDSAPub: 0x04, X, Y
FromECDSAPub(p) == <<4>> \o XBytes(p) \o YBytes(p)

\* btcec.ParsePubKey: whether the bytes are a serialized point of the curve
ParsePubKeyOk(bs) ==
    IF Len(bs) = 33
    THEN /\ bs[1] \in {2, 3}
         /\ \E p \in 1..(CurveOrder - 1) : XBytes(p) = SubSeq(bs, 2, 33)
    ELSE IF Len(bs) = 65
    THEN \E p \in 1..(CurveOrder - 1) :
            /\ XBytes(p) = SubSeq(bs, 2, 33)
            /\ YBytes(p) = SubSeq(bs, 34, 65)
            /\ \/ bs[1] = 4
               \/ bs[1] = 6 + (YBytes(p)[32] % 2)
    ELSE FALSE

\* ripemd160 of sha256 (btcutil.Hash160)
Hash160(bs) == SubSeq(DigestBytes(3, Sha256(bs)), 1, AddressLength)

\* btcutil.DecodeAddress(addr, defaultNet): whether it returns no error
DecodeAddressOk(addr, defaultNet) ==
    LET oneIndex == LastIndexByte(addr, "1")
        segwit == decodeSegWitAddress(addr)
        dec == CheckDecode(addr)
        isP2PKH == dec.version = defaultNet.PubKeyHashAddrID
        isP2SH == dec.version = defaultNet.ScriptHashAddrID
    IN  IF oneIndex > 1 /\ IsBech32SegwitPrefix(SubSeq(addr, 1, oneIndex + 1))
        THEN /\ ~segwit.err
             /\ segwit.version \in {0, 1}
             /\ Len(segwit.program) \in {AddressLength, KeySize32}
        ELSE IF Len(addr) = 130 \/ Len(addr) = 66
        THEN /\ \A i \in 1..Len(addr) : IsHexChar(addr[i])
             /\ ParsePubKeyOk(HexDecode(addr))
        ELSE IF dec.err THEN FALSE
        ELSE IF Len(dec.payload) = AddressLength
        THEN (isP2PKH \/ isP2SH) /\ ~(isP2PKH /\ isP2SH)
        ELSE FALSE

\* BitcoinCoin.ValidateAddress
BtcValidateAddress(address, netParams) == DecodeAddressOk(address, netParams)

(***************************************************************************)
(* accounts: DeriveAccount of the four coin implementations                *)
(***************************************************************************)
Coins == {"BTC", "DOGE", "ETH", "BNB", "TRX", "SOL"}

\* types.Account{}, without CreatedAt
ZeroAccount == [Path |-> <<>>, PrivateKey |-> <<>>, PublicKey |-> <<>>, Address |-> <<>>, Symbol |-> ""]

\* the network parameters of a BitcoinCoin
NetParams(c) == IF c = "DOGE" THEN DogecoinParams ELSE MainNetParams

\* crypto.SecureZeroMemory: the buffer after its last pass, all zero
SecureZeroMemory(bs) == ZeroBytes(Len(bs))

\* BitcoinCoin.publicKeyToAddress: Base58Check of the hash160 under the
\* network's PubKeyHashAddrID
BtcPublicKeyToAddress(pub, net) ==
    CheckEncode(Hash160(pub), net.PubKeyHashAddrID)

\* the variant of BitcoinCoin.DeriveAccount that returns, beside the error, an
\* account that already carries the path and the symbol
BtcDeriveAccount_PartialOnError(c, sd, p) ==
    LET key == DeriveKey(sd, p)
        publicKeyBytes == SerializeCompressed(PubPoint(key.key.Key))
    IN  IF key.err THEN [err |-> TRUE, account |-> [ZeroAccount EXCEPT !.Path = p, !.Symbol = c]]
        ELSE [err |-> FALSE,
              account |-> [Path |-> p,
                           PrivateKey |-> KeyBytes(key.key.Key),
                           PublicKey |-> publicKeyBytes,
                           Address |-> BtcPublicKeyToAddress(publicKeyBytes, NetParams(c)),
                           Symbol |-> c]]

\* BitcoinCoin.DeriveAccount; PrivateKey is a fresh serialization of the key
BtcDeriveAccount(c, sd, p) ==
    LET key == DeriveKey(sd, p)
        publicKeyBytes == SerializeCompressed(PubPoint(key.key.Key))
    IN  IF key.err THEN [err |-> TRUE, account |-> ZeroAccount]
        ELSE [err |-> FALSE,
              account |-> [Path |-> p,
                           PrivateKey |-> KeyBytes(key.key.Key),
                           PublicKey |-> publicKeyBytes,
                           Address |-> BtcPublicKeyToAddress(publicKeyBytes, NetParams(c)),
                           Symbol |-> c]]

\* the uncompressed key without its 0x04 byte, as both publicKeyToAddress do
StripUncompressedPrefix(pub) ==
    IF Len(pub) = 65 /\ pub[1] = 4 THEN Tail(pub) ELSE pub

\* Address.Hex of go-ethereum: 0x and the EIP-55 form of the hex digits
AddressHex(addressBytes) ==
    LET lower == HexEncode(addressBytes)
        hash == Keccak256(StringBytes(lower))
    IN  <<"0", "x">> \o
        [i \in 1..Len(lower) |->
            IF ~IsDigit(lower[i]) /\ HexVal(HashHexChar(hash, i - 1)) > 7
            THEN ToUpperChar(lower[i]) ELSE lower[i]]

\* EthereumCoin.publicKeyToAddress: the last AddressLength bytes of the hash
EthPublicKeyToAddress(pub) ==
    LET hash == Keccak256(StripUncompressedPrefix(pub))
    IN  toChecksumAddress(AddressHex(SubSeq(hash, 32 - AddressLength + 1, 32)))

\* EthereumCoin.DeriveAccount; PrivateKey shares its bytes with key.Key, which
\* SecureZeroMemory overwrites before the account is returned
EthDeriveAccount(c, sd, p) ==
    LET key == DeriveKey(sd, p)
        privateKeyBytes == KeyBytes(key.key.Key)
        publicKeyBytes == FromECDSAPub(PubPoint(key.key.Key))
    IN  IF key.err THEN [err |-> TRUE, account |-> ZeroAccount]
        ELSE [err |-> FALSE,
              account |-> [Path |-> p,
                           PrivateKey |-> SecureZeroMemory(privateKeyBytes),
                           PublicKey |-> publicKeyBytes,
                           Address |-> EthPublicKeyToAddress(publicKeyBytes),
                           Symbol |-> c]]

\* the variant of publicKeyToAddress that appends one checksum byte fewer
TronPublicKeyToAddress_ShortChecksum(pub) ==
    LET hash == Keccak256(StripUncompressedPrefix(pub))
        tronAddressBytes == <<TronPrefix>> \o SubSeq(hash, 32 - AddressLength + 1, 32)
        checksum == doubleSHA256(tronAddressBytes)
    IN  Base58Encode(tronAddressBytes \o SubSeq(checksum, 1, ChecksumLen - 1))

\* TronCoin.publicKeyToAddress
TronPublicKeyToAddress(pub) ==
    LET hash == Keccak256(StripUncompressedPrefix(pub))
        tronAddressBytes == <<TronPrefix>> \o SubSeq(hash, 32 - AddressLength + 1, 32)
        checksum == doubleSHA256(tronAddressBytes)
    IN  Base58Encode(tronAddressBytes \o SubSeq(checksum, 1, ChecksumLen))

\* TronCoin.DeriveAccount; PrivateKey shares its bytes with key.Key as in the
\* Ethereum implementation
TronDeriveAccount(c, sd, p) ==
    LET key == DeriveKey(sd, p)
        privateKeyBytes == KeyBytes(key.key.Key)
        publicKeyBytes == FromECDSAPub(PubPoint(key.key.Key))
    IN  IF key.err THEN [err |-> TRUE, account |-> ZeroAccount]
        ELSE [err |-> FALSE,
              account |-> [Path |-> p,
                           PrivateKey |-> SecureZeroMemory(privateKeyBytes),
                           PublicKey |-> publicKeyBytes,
                           Address |-> TronPublicKeyToAddress(publicKeyBytes),
                           Symbol |-> c]]

\* the HMAC key "ed25519 seed" of the SLIP-0010 master key
Ed25519SeedKey == <<101, 100, 50, 53, 53, 49, 57, 32, 115, 101, 101, 100>>

\* hdwallet.isValidPath: m, then one or more components of digits and a quote
isValidPath(p) ==
    LET segments == Split(p, "/")
    IN  /\ Len(segments) >= 2
        /\ segments[1] = <<"m">>
        /\ \A k \in 2..Len(segments) :
              /\ Len(segments[k]) >= 2
              /\ segments[k][Len(segments[k])] = "'"
              /\ \A i \in 1..(Len(segments[k]) - 1) : IsDigit(segments[k][i])

\* hdwallet.CKDPriv: the HMAC input is 0x00 || key || ser32(index)
CKDPriv(key, index) ==
    LET hm == HmacSha512(<<key.ChainCode>>, <<0, key.PrivateKey>> \o Ser32(index))
    IN  [PrivateKey |-> hm.IL, ChainCode |-> hm.IR]

RECURSIVE DerivedWalk(_, _)
\* the loop of hdwallet.Derived over the components after m
DerivedWalk(key, segments) ==
    IF Len(segments) = 0 THEN [err |-> FALSE, key |-> key]
    ELSE LET num == ParseUint(SubSeq(Head(segments), 1, Len(Head(segments)) - 1))
         IN  IF num.err THEN [err |-> TRUE, key |-> key]
             ELSE DerivedWalk(CKDPriv(key, Add32(num.val, FirstHardenedChild)), Tail(segments))

\* hdwallet.Derived
Derived(p, sd) ==
    LET hm == HmacSha512(Ed25519SeedKey, sd)
    IN  IF ~isValidPath(p) THEN [err |-> TRUE, key |-> [PrivateKey |-> 0, ChainCode |-> 0]]
        ELSE DerivedWalk([PrivateKey |-> hm.IL, ChainCode |-> hm.IR], Tail(Split(p, "/")))

\* the ed25519 public key of a 32-byte seed
Ed25519PublicKey(seedBytes) == SubSeq(DigestBytes(4, seedBytes), 1, KeySize32)

\* SolanaCoin.DeriveAccount; PrivateKey is the seed followed by the public key
SolDeriveAccount(c, sd, p) ==
    LET key == Derived(p, sd)
        publicKeyBytes == Ed25519PublicKey(KeyBytes(key.key.PrivateKey))
    IN  IF key.err THEN [err |-> TRUE, account |-> ZeroAccount]
        ELSE [err |-> FALSE,
              account |-> [Path |-> p,
                           PrivateKey |-> KeyBytes(key.key.PrivateKey) \o publicKeyBytes,
                           PublicKey |-> publicKeyBytes,
                           Address |-> Base58Encode(publicKeyBytes),
                           Symbol |-> c]]

\* Coin.DeriveAccount of the coin with symbol c
DeriveAccountOf(c, sd, p) ==
    CASE c \in {"BTC", "DOGE"} -> BtcDeriveAccount(c, sd, p)
      [] c \in {"ETH", "BNB"} -> EthDeriveAccount(c, sd, p)
      [] c = "TRX" -> TronDeriveAccount(c, sd, p)
      [] OTHER -> SolDeriveAccount(c, sd, p)

\* Coin.ValidateAddress of the coin with symbol c
ValidateAddressOf(c, address) ==
    CASE c \in {"BTC", "DOGE"} -> BtcValidateAddress(address, NetParams(c))
      [] c \in {"ETH", "BNB"} -> EthValidateAddress(address)
      [] c = "TRX" -> TronValidateAddress(address)
      [] OTHER -> SolValidateAddress(address)

(***************************************************************************)
(* path inputs                                                             *)
(***************************************************************************)
PathPrefixes == {<<"m", "/">>, <<>>, <<"M", "/">>, <<"m">>}

\* the well-formed component of a position
CanonComponent(i) ==
    CASE i = 1 -> <<"4", "4", "'">>
      [] i = 2 -> <<"6", "0", "'">>
      [] i = 3 -> <<"0", "'">>
      [] i = 5 -> <<"1">>
      [] OTHER -> <<"0">>

OddComponents ==
    { <<"0">>, <<"7", "'">>,
      <<"0", "7", "'">>, <<"0", "0", "7">>,
      <<"2", "1", "4", "7", "4", "8", "3", "6", "4", "8", "'">>,
      <<"2", "1", "4", "7", "4", "8", "3", "6", "4", "8">>,
      <<"4", "2", "9", "4", "9", "6", "7", "2", "9", "5", "'">>,
      <<"4", "2", "9", "4", "9", "6", "7", "2", "9", "6">>,
      <<>>, <<"'">>, <<"-", "1">>, <<"+", "1", "'">>, <<"x">>, <<"1", "'", "'">> }

\* every path of n components of which those at the positions of odd are
\* replaced by a component of OddComponents
PathOf(prefix, n, odd) ==
    prefix \o Join([i \in 1..n |-> IF i \in DOMAIN odd THEN odd[i] ELSE CanonComponent(i)], "/")

(***************************************************************************)
(* the path calls: ParseDerivationPath, DerivationPath.String, DeriveKey   *)
(***************************************************************************)
NoParse == [err |-> FALSE, dp |-> ZeroPath]
NoDerive == [err |-> FALSE, key |-> NoKey, steps |-> <<>>]
NoAccount == [err |-> FALSE, account |-> ZeroAccount]

InitPath ==
    /\ wallet = <<>>
    /\ heap = <<>>
    /\ pc = "start"
    /\ \E prefix \in PathPrefixes, n \in 1..MaxParts :
         \E S \in {T \in SUBSET (1..n) : Cardinality(T) <= MaxOdd} :
           \E odd \in [S -> OddComponents] :
             path = PathOf(prefix, n, odd)
    /\ seed \in Seeds
    /\ parsed = NoParse
    /\ formatted = <<>>
    /\ derived = NoDerive
    /\ coin = ""
    /\ acct = NoAccount
    /\ candidate = <<>>
    /\ verdicts = {}
    /\ cks = <<>>
    /\ calls = <<>>
    /\ input = <<>>

Parse ==
    /\ pc = "start"
    /\ parsed' = ParseDerivationPath(path)
    /\ pc' = "parsed"
    /\ UNCHANGED <<path, seed, formatted, derived, coin, acct, candidate, verdicts, cks, calls, input, wallet, heap>>

Format ==
    /\ pc = "parsed"
    /\ ~parsed.err
    /\ formatted' = String(parsed.dp)
    /\ pc' = "formatted"
    /\ UNCHANGED <<path, seed, parsed, derived, coin, acct, candidate, verdicts, cks, calls, input, wallet, heap>>

Derive ==
    /\ pc = "start"
    /\ derived' = DeriveKey(seed, path)
    /\ pc' = "derived"
    /\ UNCHANGED <<path, seed, parsed, formatted, coin, acct, candidate, verdicts, cks, calls, input, wallet, heap>>

NextPath == Parse \/ Format \/ Derive

SpecPath == InitPath /\ [][NextPath]_vars

(***************************************************************************)
(* claims about the path calls                                             *)
(***************************************************************************)
\* the slash-separated pieces of a whole path string, "m" included
Pieces(p) == Split(p, "/")

\* the components of a path of five components: the pieces after the first
Components(p) == Tail(Pieces(p))

HasFiveComponents(p) == Len(Pieces(p)) = 6

HasMarker(c) == Len(c) > 0 /\ c[Len(c)] = "'"

\* the component without its trailing marker
NumericPart(c) == IF HasMarker(c) THEN SubSeq(c, 1, Len(c) - 1) ELSE c

RECURSIVE StripZeros(_)
StripZeros(ds) == IF Len(ds) > 1 /\ ds[1] = "0" THEN StripZeros(Tail(ds)) ELSE ds

MaxUint32Digits == <<"4", "2", "9", "4", "9", "6", "7", "2", "9", "5">>

\* ds, of equal length as es, is not above es in the order of the digits
DigitsLeq(ds, es) ==
    \/ ds = es
    \/ \E i \in 1..Len(ds) :
         /\ DigitVal(ds[i]) < DigitVal(es[i])
         /\ \A j \in 1..(i - 1) : ds[j] = es[j]

\* c is a decimal number in 0..2^32-1: digits only, at least one, and not
\* above 4294967295 once the leading zeros are dropped
IsUint32Decimal(c) ==
    /\ Len(c) > 0
    /\ \A i \in 1..Len(c) : IsDigit(c[i])
    /\ LET ds == StripZeros(c)
       IN  Len(ds) < 10 \/ (Len(ds) = 10 /\ DigitsLeq(ds, MaxUint32Digits))

\* the hardening pattern of the BIP44 profile: marker on components 0-2, none on 3-4
ViolatesHardening(p) ==
    /\ HasFiveComponents(p)
    /\ \/ \E i \in 1..3 : ~HasMarker(Components(p)[i])
       \/ \E i \in 4..5 : HasMarker(Components(p)[i])

\* C1 (as claimed): for every string s that ParseDerivationPath accepts,
\* DerivationPath.String() of the parsed path returns exactly s.
C1_RoundTrip == pc = "formatted" => formatted = path

\* C2: ParseDerivationPath returns an error for every 5-component path in
\* which one of components 0-2 lacks the trailing ' or one of components 3-4
\* carries it.
C2_HardeningEnforced == (pc = "parsed" /\ ViolatesHardening(path)) => parsed.err

\* a path that is well formed but for a marker on the change component
C2_Witness ==
    /\ pc = "parsed"
    /\ HasPrefix(path, <<"m", "/">>)
    /\ HasFiveComponents(path)
    /\ \A i \in 1..5 : IsUint32Decimal(NumericPart(Components(path)[i]))
    /\ \A i \in 1..3 : HasMarker(Components(path)[i])
    /\ HasMarker(Components(path)[4])
    /\ ~HasMarker(Components(path)[5])
    /\ parsed.err

\* no "m/" prefix, not five components, or a component whose numeric part is
\* not a decimal number of 32 bits
Malformed(p) ==
    \/ ~HasPrefix(p, <<"m", "/">>)
    \/ ~HasFiveComponents(p)
    \/ \E i \in 1..5 : ~IsUint32Decimal(NumericPart(Components(p)[i]))

\* C3: ParseDerivationPath returns an error and the zero DerivationPath for
\* every input without the "m/" prefix, without exactly 5 components, or with
\* a component whose numeric part is not a decimal number in 0..2^32-1.
C3_MalformedRejected ==
    (pc = "parsed" /\ Malformed(path)) => (parsed.err /\ parsed.dp = ZeroPath)

\* a path whose only fault is a component one above 2^32-1
C3_Witness ==
    /\ pc = "parsed"
    /\ HasPrefix(path, <<"m", "/">>)
    /\ HasFiveComponents(path)
    /\ ~ViolatesHardening(path)
    /\ \E i \in 1..5 :
         /\ NumericPart(Components(path)[i]) = <<"4", "2", "9", "4", "9", "6", "7", "2", "9", "6">>
         /\ \A j \in (1..5) \ {i} : IsUint32Decimal(NumericPart(Components(path)[j]))
    /\ parsed.err
    /\ parsed.dp = ZeroPath

\* the value of component i (1..5) of an accepted path
ComponentValue(p, i) ==
    LET dp == ParseDerivationPath(p).dp
    IN  CASE i = 1 -> dp.Purpose
          [] i = 2 -> dp.CoinType
          [] i = 3 -> dp.Account
          [] i = 4 -> dp.Change
          [] OTHER -> dp.Index

\* C4 (as claimed): for every accepted path DeriveKey performs the purpose,
\* coin-type and account steps with the hardened child index component + 2^31
\* (no wrap, so the index is >= 2^31) and the change and index steps with a
\* child index below 2^31.
C4_HardeningPatternFixed ==
    pc = "derived" =>
        \A i \in 1..Len(derived.steps) :
            IF i <= 3
            THEN /\ IsHardenedIndex(derived.steps[i])
                 /\ derived.steps[i].hi = ComponentValue(path, i).hi + FirstHardenedChild.hi
                 /\ derived.steps[i].lo = ComponentValue(path, i).lo
            ELSE ~IsHardenedIndex(derived.steps[i])

(***************************************************************************)
(* address inputs                                                          *)
(***************************************************************************)
\* number of sample payloads of every length
NumPayloads == 2

\* largest number of ValidateAddress calls on one address
MaxCalls == 2

\* largest number of successive toChecksumAddress calls
MaxChecksums == 2

\* the paths handed to DeriveAccount: BIP44-shaped, all-hardened and short ones
AccountPaths ==
    { Join(<<<<"m">>, purpose \o <<"'">>, cointype \o <<"'">>>> \o rest, "/") :
        purpose \in {<<"4", "4">>, <<"8", "4">>},
        cointype \in {<<"0">>, <<"3">>, <<"6", "0">>, <<"1", "9", "5">>, <<"5", "0", "1">>},
        rest \in { <<<<"0", "'">>, <<"0">>, <<"0">>>>,
                   <<<<"0", "'">>, <<"0">>, <<"1">>>>,
                   <<<<"0", "'">>, <<"0", "'">>>>,
                   <<<<"0", "'">>>> } }

\* sample byte strings of length n
Payloads(n) == {[i \in 1..n |-> (k * 37 + i * 11 + n) % 256] : k \in 1..NumPayloads}

\* version bytes: the P2PKH and P2SH bytes of BTC and DOGE, the TRON prefix and
\* the P2PKH byte of the Bitcoin test network
VersionBytes == {0, 5, 30, 22, 65, 111}

\* a version byte, a payload and its checksum, and the damaged forms of them:
\* one checksum byte changed, the last byte dropped, one byte added
Damaged(body) ==
    LET good == body \o B58Checksum(body)
    IN  {good, SubSeq(good, 1, Len(good) - 1), Append(good, 0)}
        \cup {[good EXCEPT ![Len(body) + j] = (@ + 1) % 256] : j \in 1..ChecksumLen}

Base58CheckInputs ==
    UNION { {Base58Encode(bs) : bs \in Damaged(<<v>> \o payload)} :
              v \in VersionBytes,
              payload \in UNION {Payloads(n) : n \in (AddressLength - 1)..(AddressLength + 1)} }

SolanaInputs ==
    {Base58Encode(bs) : bs \in UNION {Payloads(n) : n \in (KeySize32 - 1)..(KeySize32 + 1)}}
    \cup {Base58Encode(ZeroBytes(KeySize32))}

\* the characters of the generated hex bodies: a digit, a letter in both
\* cases and a second letter
EthAlphabet == {"7", "a", "A", "C"}

EthBodies == [1..(2 * AddressLength) -> EthAlphabet]

EthereumInputs ==
    {<<"0", "x">> \o body : body \in EthBodies}
    \cup EthBodies
    \cup UNION { { <<"0", "X">> \o body,
                   <<"0", "x">> \o body \o <<"a">>,
                   <<"0", "x">> \o Tail(body),
                   <<"0", "x">> \o [body EXCEPT ![1] = "g"],
                   <<"0", "x", "0", "x">> \o Tail(Tail(body)) } :
                 body \in [1..(2 * AddressLength) -> {"a"}] \cup [1..(2 * AddressLength) -> {"A"}] }

\* encodeSegWitAddress of btcutil under a chosen checksum constant
SegwitEncode(hrp, version, program, enc) ==
    LET vals == <<version>> \o ConvertBits8to5(program)
        all == vals \o Bech32Checksum(hrp, vals, enc)
    IN  hrp \o <<"1">> \o [i \in 1..Len(all) |-> Bech32Charset[all[i] + 1]]

SegwitInputs ==
    { SegwitEncode(hrp, version, program, enc) :
        hrp \in {<<"b", "c">>, <<"t", "b">>, <<"l", "t", "c">>},
        version \in {0, 1, 2},
        program \in Payloads(AddressLength) \cup Payloads(AddressLength + 1) \cup Payloads(KeySize32),
        enc \in {Version0, VersionM} }

\* serialized public keys in hex, one of them with a changed coordinate, one
\* with a changed format byte and one with a character that is no hex digit
PubKeyInputs ==
    UNION { { HexEncode(SerializeCompressed(p)),
              HexEncode(FromECDSAPub(p)),
              HexEncode([SerializeCompressed(p) EXCEPT ![2] = (@ + 1) % 256]),
              HexEncode([SerializeCompressed(p) EXCEPT ![1] = 5]),
              [HexEncode(SerializeCompressed(p)) EXCEPT ![3] = "g"] } : p \in {3} }

OtherInputs == { <<>>, <<"0">>, <<"O", "I", "l">>, <<"1">>, <<"b", "c", "1">> }

Candidates ==
    Base58CheckInputs \cup SolanaInputs \cup EthereumInputs \cup SegwitInputs
        \cup PubKeyInputs \cup OtherInputs

(***************************************************************************)
(* the address calls: DeriveAccount, ValidateAddress, toChecksumAddress    *)
(***************************************************************************)
InitAddr ==
    /\ wallet = <<>>
    /\ heap = <<>>
    /\ parsed = NoParse
    /\ formatted = <<>>
    /\ derived = NoDerive
    /\ acct = NoAccount
    /\ verdicts = {}
    /\ cks = <<>>
    /\ calls = <<>>
    /\ input = <<>>
    /\ \/ /\ pc = "start"
          /\ coin \in Coins
          /\ seed \in Seeds
          /\ path \in AccountPaths
          /\ candidate = <<>>
       \/ /\ pc = "given"
          /\ coin = ""
          /\ seed = <<>>
          /\ path = <<>>
          /\ candidate \in Candidates

\* a call of the coin's DeriveAccount; its address is then the one validated
DeriveAccount ==
    /\ pc = "start"
    /\ acct' = DeriveAccountOf(coin, seed, path)
    /\ candidate' = acct'.account.Address
    /\ pc' = IF acct'.err THEN "failed" ELSE "derived"
    /\ UNCHANGED <<path, seed, parsed, formatted, derived, coin, verdicts, cks, calls, input, wallet, heap>>

\* a call of ValidateAddress(candidate) of coin c
ValidateAddress(c) ==
    /\ pc \in {"derived", "given"}
    /\ cks = <<>>
    /\ Cardinality(verdicts) < MaxCalls
    /\ \A v \in verdicts : v[1] # c
    /\ verdicts' = verdicts \cup {<<c, ValidateAddressOf(c, candidate)>>}
    /\ UNCHANGED <<pc, path, seed, parsed, formatted, derived, coin, acct, candidate, cks, calls, input, wallet, heap>>

\* a 2*AddressLength-digit hex address with or without 0x
IsChecksumInput(s) == IsHexAddress(s) /\ ~HasPrefix(s, <<"0", "X">>)

\* a call of toChecksumAddress, on the address first and then on its own result
ToChecksum ==
    /\ pc \in {"derived", "given"}
    /\ verdicts = {}
    /\ Len(cks) < MaxChecksums
    /\ IsChecksumInput(candidate)
    /\ cks' = Append(cks, toChecksumAddress(IF Len(cks) = 0 THEN candidate ELSE cks[Len(cks)]))
    /\ UNCHANGED <<pc, path, seed, parsed, formatted, derived, coin, acct, candidate, verdicts, calls, input, wallet, heap>>

NextAddr == DeriveAccount \/ (\E c \in Coins : ValidateAddress(c)) \/ ToChecksum

SpecAddr == InitAddr /\ [][NextAddr]_vars

(***************************************************************************)
(* claims about the address calls                                          *)
(***************************************************************************)
EthFamily == {"ETH", "BNB"}

BtcFamily == {"BTC", "DOGE"}

\* C5: every Account that DeriveAccount of a coin returns without error has
\* the requested path as Path and the coin's symbol as Symbol, and the
\* ValidateAddress of the same coin accepts its Address.
C5_DerivedAddressValid ==
    pc = "derived" =>
        /\ acct.account.Path = path
        /\ acct.account.Symbol = coin
        /\ candidate = acct.account.Address
        /\ \A v \in verdicts : v[1] = coin => v[2]

C5_Witness ==
    /\ pc = "derived"
    /\ ~acct.err
    /\ <<coin, TRUE>> \in verdicts

LowerHexLetters == {"a", "b", "c", "d", "e", "f"}

UpperHexLetters == {"A", "B", "C", "D", "E", "F"}

DecimalDigits == {"0", "1", "2", "3", "4", "5", "6", "7", "8", "9"}

\* "0x" followed by exactly 2*AddressLength hex digits (40 in the program)
IsPrefixedHex(s) ==
    /\ Len(s) = 2 + 2 * AddressLength
    /\ s[1] = "0"
    /\ s[2] = "x"
    /\ \A i \in 3..Len(s) : s[i] \in DecimalDigits \cup LowerHexLetters \cup UpperHexLetters

AllLowercase(s) == \A i \in 3..Len(s) : s[i] \notin UpperHexLetters

AllUppercase(s) == \A i \in 3..Len(s) : s[i] \notin LowerHexLetters

\* nibble i (from 0) of a hash
Nibble(hash, i) ==
    IF i % 2 = 0 THEN hash[(i \div 2) + 1] \div 16 ELSE hash[(i \div 2) + 1] % 16

\* s is in EIP-55 form: a letter is uppercase exactly if the nibble of its
\* position in the Keccak-256 hash of the lowercase digits is 8 or more
IsEip55Form(s) ==
    LET hash == Keccak256(StringBytes(ToLower(SliceFrom(s, 2))))
    IN  \A i \in 3..Len(s) :
           s[i] \notin DecimalDigits => (s[i] \in UpperHexLetters <=> Nibble(hash, i - 3) >= 8)

\* C6: ValidateAddress of the Ethereum family accepts a string exactly if it
\* is "0x" followed by 40 hex digits and its letters are all lowercase, all
\* uppercase, or cased as in its own EIP-55 form.
C6_EthValidation ==
    \A v \in verdicts :
        v[1] \in EthFamily =>
            v[2] = (/\ IsPrefixedHex(candidate)
                    /\ \/ AllLowercase(candidate)
                       \/ AllUppercase(candidate)
                       \/ IsEip55Form(candidate))

\* a mixed-case address in EIP-55 form was accepted
C6_Witness ==
    /\ pc = "given"
    /\ <<"ETH", TRUE>> \in verdicts
    /\ ~AllLowercase(candidate)
    /\ ~AllUppercase(candidate)

\* C7: toChecksumAddress applied to its own result on a 40-hex-digit address
\* returns that result again, and the address of a derived Ethereum-family
\* account is a fixed point of toChecksumAddress.
C7_ChecksumIdempotent ==
    /\ \A k \in 2..Len(cks) : cks[k] = cks[1]
    /\ (pc = "derived" /\ coin \in EthFamily /\ Len(cks) >= 1) => cks[1] = candidate

\* the checksum was applied twice to an address that was not in checksum form
C7_Witness ==
    /\ pc = "given"
    /\ Len(cks) >= 2
    /\ cks[1] # candidate

\* the bytes are a TRON address: 25 bytes, the first 0x41, the last four the
\* first four bytes of the double SHA-256 of the 21 before them
IsTronAddressBytes(d) ==
    /\ Len(d) = TronAddressLen
    /\ d[1] = TronPrefix
    /\ SubSeq(d, TronPayloadLen + 1, TronAddressLen)
         = SubSeq(Sha256(Sha256(SubSeq(d, 1, TronPayloadLen))), 1, ChecksumLen)

\* the bytes are a TRON address but for exactly one checksum byte
OneChecksumByteWrong(d) ==
    /\ Len(d) = TronAddressLen
    /\ d[1] = TronPrefix
    /\ Cardinality({j \in 1..ChecksumLen :
                      d[TronPayloadLen + j] # Sha256(Sha256(SubSeq(d, 1, TronPayloadLen)))[j]}) = 1

\* C8: ValidateAddress of TRON returns true exactly if the string
\* Base58-decodes to 25 bytes with byte 0 equal to 0x41 and bytes 21..24
\* equal to the first 4 bytes of SHA256(SHA256(bytes 0..20)); a payload of
\* another length, another prefix byte and a single wrong checksum byte are
\* rejected.
C8_TronValidation ==
    \A v \in verdicts :
        v[1] = "TRX" =>
            LET d == Base58Decode(candidate)
            IN  /\ v[2] = IsTronAddressBytes(d)
                /\ (Len(d) # TronAddressLen \/ d[1] # TronPrefix \/ OneChecksumByteWrong(d)) => ~v[2]

\* a given TRON address was accepted
C8_Witness ==
    /\ pc = "given"
    /\ <<"TRX", TRUE>> \in verdicts
    /\ IsTronAddressBytes(Base58Decode(candidate))

\* the P2PKH version byte of a Bitcoin-family coin
OwnVersionByte(c) == IF c = "DOGE" THEN 30 ELSE 0

\* s is Base58Check with version byte ver and a matching checksum
IsBase58CheckOf(s, ver) ==
    LET d == Base58Decode(s)
    IN  /\ Len(d) >= 1 + ChecksumLen
        /\ d[1] = ver
        /\ SubSeq(d, Len(d) - ChecksumLen + 1, Len(d))
             = SubSeq(Sha256(Sha256(SubSeq(d, 1, Len(d) - ChecksumLen))), 1, ChecksumLen)

\* C9: ValidateAddress of the Bitcoin family accepts only Base58Check strings
\* with the coin's own version byte (0x00 for BTC, 0x1E for DOGE) and a
\* matching checksum; every other version byte and encoding is rejected.
C9_OnlyOwnVersionByte ==
    \A v \in verdicts :
        (v[1] \in BtcFamily /\ v[2]) => IsBase58CheckOf(candidate, OwnVersionByte(v[1]))

\* the address format of a coin
Family(c) == IF c \in EthFamily THEN "ETH" ELSE c

\* C10: an address that the ValidateAddress of one coin accepts is rejected
\* by the ValidateAddress of every coin of another address format (BTC, DOGE,
\* ETH/BNB, TRX, SOL).
C10_WrongFamilyRejected ==
    \A v \in verdicts, w \in verdicts :
        (v[2] /\ Family(v[1]) # Family(w[1])) => ~w[2]

(***************************************************************************)
(* TRON: AddressToHex and HexToAddress                                     *)
(***************************************************************************)
\* the variant of AddressToHex without the prefix check
AddressToHex_NoPrefixCheck(address) ==
    LET decoded == Base58Decode(address)
    IN  IF Len(decoded) # TronAddressLen THEN [err |-> TRUE, val |-> <<>>]
        ELSE [err |-> FALSE,
              val |-> <<"0", "x">> \o HexEncode(SubSeq(decoded, 2, TronPayloadLen))]

\* TronCoin.AddressToHex: the checksum bytes are dropped without a comparison
AddressToHex(address) ==
    LET decoded == Base58Decode(address)
    IN  IF Len(decoded) # TronAddressLen THEN [err |-> TRUE, val |-> <<>>]
        ELSE IF decoded[1] # TronPrefix THEN [err |-> TRUE, val |-> <<>>]
        ELSE [err |-> FALSE,
              val |-> <<"0", "x">> \o HexEncode(SubSeq(decoded, 2, TronPayloadLen))]

\* fmt.Sscanf(s, "%02x", &b) on a string of two characters: leading spaces
\* are skipped, then one or two hex digits are read; what follows them is
\* left unread, and no digit at all is an error
ScanHexByte(s) ==
    LET t == SubSeq(s, LeadingCount(s, " ") + 1, Len(s))
    IN  IF Len(t) = 0 THEN [err |-> TRUE, val |-> 0]
        ELSE IF ~IsHexChar(t[1]) THEN [err |-> TRUE, val |-> 0]
        ELSE IF Len(t) >= 2 /\ t[2] # " " /\ IsHexChar(t[2])
             THEN [err |-> FALSE, val |-> HexVal(t[1]) * 16 + HexVal(t[2])]
        ELSE [err |-> FALSE, val |-> HexVal(t[1])]

\* the variant of HexToAddress that keeps a leading 0x
HexToAddress_KeepPrefix(hexAddress) ==
    LET scanned == [i \in 1..AddressLength |-> ScanHexByte(SubSeq(hexAddress, 2 * i - 1, 2 * i))]
        tronAddressBytes == <<TronPrefix>> \o [i \in 1..AddressLength |-> scanned[i].val]
        checksum == doubleSHA256(tronAddressBytes)
    IN  IF Len(hexAddress) # 2 * AddressLength THEN [err |-> TRUE, val |-> <<>>]
        ELSE IF \E i \in 1..AddressLength : scanned[i].err THEN [err |-> TRUE, val |-> <<>>]
        ELSE [err |-> FALSE,
              val |-> Base58Encode(tronAddressBytes \o SubSeq(checksum, 1, ChecksumLen))]

\* TronCoin.HexToAddress
HexToAddress(hexAddress) ==
    LET digits == IF Len(hexAddress) >= 2 /\ SubSeq(hexAddress, 1, 2) = <<"0", "x">>
                  THEN SliceFrom(hexAddress, 2) ELSE hexAddress
        scanned == [i \in 1..AddressLength |-> ScanHexByte(SubSeq(digits, 2 * i - 1, 2 * i))]
        tronAddressBytes == <<TronPrefix>> \o [i \in 1..AddressLength |-> scanned[i].val]
        checksum == doubleSHA256(tronAddressBytes)
    IN  IF Len(digits) # 2 * AddressLength THEN [err |-> TRUE, val |-> <<>>]
        ELSE IF \E i \in 1..AddressLength : scanned[i].err THEN [err |-> TRUE, val |-> <<>>]
        ELSE [err |-> FALSE,
              val |-> Base58Encode(tronAddressBytes \o SubSeq(checksum, 1, ChecksumLen))]

\* largest number of successive conversions
MaxConversions == 2

\* the characters of the generated hex strings
TronHexAlphabet == {"0", "7", "a", "F"}

TronHexBodies == [1..(2 * AddressLength) -> TronHexAlphabet]

\* hex strings handed to HexToAddress: every body with and without 0x, and
\* bodies of another length, with another prefix, with a character that is
\* no hex digit in the first or second place of a pair, and with a space
TronHexInputs ==
    {<<"0", "x">> \o body : body \in TronHexBodies}
    \cup TronHexBodies
    \cup UNION { { <<"0", "X">> \o body,
                   body \o <<"a">>,
                   <<"0", "x">> \o Tail(body),
                   [body EXCEPT ![1] = "g"],
                   [body EXCEPT ![2] = "g"],
                   [body EXCEPT ![1] = " "],
                   [body EXCEPT ![1] = " ", ![2] = " "] } :
                 body \in [1..(2 * AddressLength) -> {"a"}] }

\* strings handed to AddressToHex and HexToAddress
TronInputs == Base58CheckInputs \cup SolanaInputs \cup TronHexInputs \cup OtherInputs

InitTron ==
    /\ wallet = <<>>
    /\ heap = <<>>
    /\ pc = "given"
    /\ candidate \in TronInputs
    /\ path = <<>>
    /\ seed = <<>>
    /\ parsed = NoParse
    /\ formatted = <<>>
    /\ derived = NoDerive
    /\ coin = "TRX"
    /\ acct = NoAccount
    /\ verdicts = {}
    /\ cks = <<>>
    /\ calls = <<>>
    /\ input = <<>>

\* the argument of the next conversion: the given string first, then the
\* result of the conversion before
NextArgument == IF Len(calls) = 0 THEN candidate ELSE calls[Len(calls)].res.val

\* a conversion may follow a successful conversion of the other direction
MayConvert(op) ==
    /\ Len(calls) < MaxConversions
    /\ Len(calls) > 0 => (calls[Len(calls)].op # op /\ ~calls[Len(calls)].res.err)

CallAddressToHex ==
    /\ MayConvert("AddressToHex")
    /\ calls' = Append(calls, [op |-> "AddressToHex", arg |-> NextArgument,
                               res |-> AddressToHex(NextArgument)])
    /\ UNCHANGED <<pc, path, seed, parsed, formatted, derived, coin, acct, candidate, verdicts, cks, input, wallet, heap>>

CallHexToAddress ==
    /\ MayConvert("HexToAddress")
    /\ calls' = Append(calls, [op |-> "HexToAddress", arg |-> NextArgument,
                               res |-> HexToAddress(NextArgument)])
    /\ UNCHANGED <<pc, path, seed, parsed, formatted, derived, coin, acct, candidate, verdicts, cks, input, wallet, heap>>

NextTron == CallAddressToHex \/ CallHexToAddress

SpecTron == InitTron /\ [][NextTron]_vars

(***************************************************************************)
(* claims about the TRON conversions                                       *)
(***************************************************************************)
\* an optional "0x" and exactly 2*AddressLength hex digits (40 in the program)
IsHexBody(h) ==
    LET body == IF Len(h) >= 2 /\ h[1] = "0" /\ h[2] = "x" THEN SliceFrom(h, 2) ELSE h
    IN  /\ Len(body) = 2 * AddressLength
        /\ \A i \in 1..Len(body) : body[i] \in DecimalDigits \cup LowerHexLetters \cup UpperHexLetters

\* "0x" and the lowercase digits of a hex string
LowerHexForm(h) ==
    LET body == IF Len(h) >= 2 /\ h[1] = "0" /\ h[2] = "x" THEN SliceFrom(h, 2) ELSE h
    IN  <<"0", "x">> \o ToLower(body)

\* C11: for an address a that ValidateAddress of TRON accepts,
\* HexToAddress(AddressToHex(a)) is a; for a string h of exactly 40 hex
\* digits with or without "0x", AddressToHex(HexToAddress(h)) is "0x" and the
\* lowercase digits of h.
C11_TronRoundTrip ==
    /\ (Len(calls) >= 1 /\ calls[1].op = "AddressToHex" /\ TronValidateAddress(candidate))
          => ~calls[1].res.err
    /\ (Len(calls) >= 2 /\ calls[1].op = "AddressToHex" /\ TronValidateAddress(candidate))
          => (~calls[2].res.err /\ calls[2].res.val = candidate)
    /\ (Len(calls) >= 1 /\ calls[1].op = "HexToAddress" /\ IsHexBody(candidate))
          => ~calls[1].res.err
    /\ (Len(calls) >= 2 /\ calls[1].op = "HexToAddress" /\ IsHexBody(candidate))
          => (~calls[2].res.err /\ calls[2].res.val = LowerHexForm(candidate))

\* a hex string with an uppercase digit and no prefix went through both conversions
C11_Witness ==
    /\ Len(calls) = 2
    /\ calls[1].op = "HexToAddress"
    /\ IsHexBody(candidate)
    /\ candidate # LowerHexForm(candidate)
    /\ calls[2].res.val = LowerHexForm(candidate)

\* C12: AddressToHex returns an error and the empty string for every string
\* that does not decode to 25 bytes beginning with 0x41, and every address
\* that HexToAddress returns without error decodes to 25 bytes beginning
\* with 0x41.
C12_TronConversionsReject ==
    \A k \in 1..Len(calls) :
        /\ (calls[k].op = "AddressToHex"
              /\ (Len(Base58Decode(calls[k].arg)) # TronAddressLen
                    \/ Base58Decode(calls[k].arg)[1] # TronPrefix))
             => (calls[k].res.err /\ calls[k].res.val = <<>>)
        /\ (calls[k].op = "HexToAddress" /\ ~calls[k].res.err)
             => (/\ Len(Base58Decode(calls[k].res.val)) = TronAddressLen
                 /\ Base58Decode(calls[k].res.val)[1] = TronPrefix)

\* AddressToHex rejected a string of 25 bytes with another prefix byte
C12_Witness ==
    /\ Len(calls) = 1
    /\ calls[1].op = "AddressToHex"
    /\ Len(Base58Decode(candidate)) = TronAddressLen
    /\ Base58Decode(candidate)[1] # TronPrefix
    /\ calls[1].res.err

\* C13: AddressToHex fails for every input whose four checksum bytes differ
\* from the double SHA-256 of its 21 bytes: it succeeds only on addresses
\* that ValidateAddress accepts.
C13_AddressToHexChecksChecksum ==
    \A k \in 1..Len(calls) :
        (calls[k].op = "AddressToHex" /\ ~calls[k].res.err)
            => IsTronAddressBytes(Base58Decode(calls[k].arg))

(***************************************************************************)
(* mnemonics: GenerateMnemonic and MnemonicToSeed.  A mnemonic string is a *)
(* sequence of tokens: the number i in 0..2047 is word i of the word list, *)
(* Space is a blank, and a number from 2048 on is a word outside the list. *)
(* Tokens that follow each other without a blank form one word.            *)
(***************************************************************************)
\* size of the BIP39 word list
WordListSize == 2048

Space == -1

\* the remainder of Go's % operator, which takes the sign of the dividend
GoRem(a, b) == IF a >= 0 THEN a % b ELSE -((-a) % b)

RECURSIVE BitsToNat(_, _, _, _)
\* the number written by the n bits from bit j on of groups of w bits
BitsToNat(groups, w, j, n) ==
    IF n = 0 THEN 0
    ELSE 2 * BitsToNat(groups, w, j, n - 1) + BitOf(groups, w, j + n - 1)

\* the first byte of the SHA-256 of the entropy, which holds the checksum bits
computeChecksum(entropy) == Sha256(entropy)[1]

\* the variant of NewMnemonic that leaves the checksum bits out
NewMnemonic_NoChecksum(entropy) ==
    LET ent == 8 * Len(entropy)
        Word(i) == BitsToNat(entropy, 8, 11 * i - 10, 11)
        n == ent \div 11
    IN  IF ent % 32 # 0 \/ ent < 128 \/ ent > 256 THEN [err |-> TRUE, val |-> <<>>]
        ELSE [err |-> FALSE,
              val |-> [k \in 1..(2 * n - 1) |-> IF k % 2 = 1 THEN Word((k + 1) \div 2) ELSE Space]]

\* bip39.NewMnemonic: the entropy bits, then one checksum bit per 32 bits of
\* entropy, cut into words of 11 bits and joined with blanks
NewMnemonic(entropy) ==
    LET ent == 8 * Len(entropy)
        cs == ent \div 32
        Bit(j) == IF j <= ent THEN BitOf(entropy, 8, j)
                  ELSE BitOf(<<computeChecksum(entropy)>>, 8, j - ent)
        Word(i) == Bit(11 * i - 10) * 1024 + Bit(11 * i - 9) * 512 + Bit(11 * i - 8) * 256
                     + Bit(11 * i - 7) * 128 + Bit(11 * i - 6) * 64 + Bit(11 * i - 5) * 32
                     + Bit(11 * i - 4) * 16 + Bit(11 * i - 3) * 8 + Bit(11 * i - 2) * 4
                     + Bit(11 * i - 1) * 2 + Bit(11 * i)
        n == (ent + cs) \div 11
    IN  IF ent % 32 # 0 \/ ent < 128 \/ ent > 256 THEN [err |-> TRUE, val |-> <<>>]
        ELSE [err |-> FALSE,
              val |-> [k \in 1..(2 * n - 1) |-> IF k % 2 = 1 THEN Word((k + 1) \div 2) ELSE Space]]

RECURSIVE FieldsFrom(_, _)
\* the words of s from position i on
FieldsFrom(s, i) ==
    IF \A j \in i..Len(s) : s[j] = Space THEN <<>>
    ELSE LET start == CHOOSE j \in i..Len(s) :
                          s[j] # Space /\ \A l \in i..(j - 1) : s[l] = Space
             end == CHOOSE e \in start..Len(s) :
                        /\ (e = Len(s) \/ s[e + 1] = Space)
                        /\ \A l \in start..e : s[l] # Space
         IN  <<SubSeq(s, start, end)>> \o FieldsFrom(s, end + 1)

\* strings.Fields: the words of a string, each the tokens between blanks
Fields(s) == FieldsFrom(s, 1)

\* whether a word is in the word list (wordMap of bip39)
InWordList(word) == Len(word) = 1 /\ word[1] >= 0 /\ word[1] < WordListSize

\* the variant of EntropyFromMnemonic that does not compare the checksum
EntropyFromMnemonicOk_NoChecksum(mnemonic) ==
    LET words == Fields(mnemonic)
        n == Len(words)
    IN  IF n % 3 # 0 \/ n < 12 \/ n > 24 THEN FALSE
        ELSE \A k \in 1..n : InWordList(words[k])

\* bip39.EntropyFromMnemonic: whether it returns no error
EntropyFromMnemonicOk(mnemonic) ==
    LET words == Fields(mnemonic)
        n == Len(words)
        indexes == [k \in 1..n |-> words[k][1]]
        ent == (n \div 3) * 32
        cs == n \div 3
        entropy == [i \in 1..(ent \div 8) |-> GroupAt(indexes, 11, 8 * (i - 1) + 1, 8)]
        checksum == BitsToNat(indexes, 11, ent + 1, cs)
    IN  IF n % 3 # 0 \/ n < 12 \/ n > 24 THEN FALSE
        ELSE IF \E k \in 1..n : ~InWordList(words[k]) THEN FALSE
        ELSE checksum = computeChecksum(entropy) \div (2 ^ (8 - cs))

\* bip39.IsMnemonicValid
IsMnemonicValid(mnemonic) == EntropyFromMnemonicOk(mnemonic)

\* stand-in for bip39.NewSeed: the 64 bytes of PBKDF2-HMAC-SHA512 of the
\* mnemonic under the salt "mnemonic" followed by the passphrase
NewSeed(mnemonic, passphrase) ==
    LET m == Mix([i \in 1..Len(mnemonic) |-> mnemonic[i] + 1] \o <<WordListSize + 1>> \o passphrase)
    IN  [i \in 1..64 |-> ((((m + i) * (2 * i + 77)) \div 5) + i * m) % 256]

\* the variant of MnemonicToSeed whose seed depends on the calls made before
MnemonicToSeed_Stateful(mnemonic, passphrase) ==
    IF ~IsMnemonicValid(mnemonic) THEN [err |-> TRUE, val |-> <<>>]
    ELSE [err |-> FALSE, val |-> NewSeed(mnemonic, passphrase \o <<Len(calls)>>)]

\* crypto.MnemonicToSeed
MnemonicToSeed(mnemonic, passphrase) ==
    IF ~IsMnemonicValid(mnemonic) THEN [err |-> TRUE, val |-> <<>>]
    ELSE [err |-> FALSE, val |-> NewSeed(mnemonic, passphrase)]

\* number of distinct byte strings the random source can deliver for a size
NumEntropies == 2

\* the k-th byte string of a size that the random source can deliver
RandomBytes(k, size) == [i \in 1..size |-> (k * 89 + i * 53 + size) % 256]

\* the outcomes of rand.Read in SecureRandom: an error, or one of the byte strings
RandOutcomes == {[err |-> TRUE, k |-> 0]} \cup {[err |-> FALSE, k |-> k] : k \in 1..NumEntropies}

\* crypto.SecureRandom under an outcome of rand.Read
SecureRandom(size, outcome) ==
    IF outcome.err THEN [err |-> TRUE, val |-> <<>>]
    ELSE [err |-> FALSE, val |-> RandomBytes(outcome.k, size)]

\* the variant of GenerateMnemonic without the lower limit of 128 bits
GenerateMnemonic_NoLowerLimit(entropyBits, outcome) ==
    LET entropy == SecureRandom(entropyBits \div 8, outcome)
        mnemonic == NewMnemonic(entropy.val)
    IN  IF GoRem(entropyBits, 32) # 0 \/ entropyBits < 0 \/ entropyBits > 256
        THEN [err |-> TRUE, val |-> <<>>, requested |-> 0]
        ELSE IF entropy.err THEN [err |-> TRUE, val |-> <<>>, requested |-> entropyBits \div 8]
        ELSE IF mnemonic.err THEN [err |-> TRUE, val |-> <<>>, requested |-> entropyBits \div 8]
        ELSE [err |-> FALSE, val |-> mnemonic.val, requested |-> entropyBits \div 8]

\* crypto.GenerateMnemonic under an outcome of rand.Read; requested is the
\* number of random bytes asked of the random source
GenerateMnemonic(entropyBits, outcome) ==
    LET entropy == SecureRandom(entropyBits \div 8, outcome)
        mnemonic == NewMnemonic(entropy.val)
    IN  IF GoRem(entropyBits, 32) # 0 \/ entropyBits < 128 \/ entropyBits > 256
        THEN [err |-> TRUE, val |-> <<>>, requested |-> 0]
        ELSE IF entropy.err THEN [err |-> TRUE, val |-> <<>>, requested |-> entropyBits \div 8]
        ELSE IF mnemonic.err THEN [err |-> TRUE, val |-> <<>>, requested |-> entropyBits \div 8]
        ELSE [err |-> FALSE, val |-> mnemonic.val, requested |-> entropyBits \div 8]

(***************************************************************************)
(* the mnemonic calls                                                      *)
(***************************************************************************)
\* largest number of calls in a row
MaxMnemonicCalls == 3

ValidBits == {128, 160, 192, 224, 256}

\* the entropy sizes handed to GenerateMnemonic
BitsInputs == ValidBits \cup {-32, -1, 0, 64, 96, 144, 288, 300}

\* the mnemonic of the first byte string of a size
SampleMnemonic(bits) == NewMnemonic(RandomBytes(1, bits \div 8)).val

\* forms of a mnemonic m that differ from it in one respect: another first
\* word, another last word, a word outside the list, a word fewer, a word
\* more, three words more, further blanks, two words run together
Variants(m) ==
    { [m EXCEPT ![1] = (@ + 1) % WordListSize],
      [m EXCEPT ![Len(m)] = (@ + 1) % WordListSize],
      [m EXCEPT ![3] = WordListSize],
      SubSeq(m, 1, Len(m) - 2),
      m \o <<Space, 0>>,
      m \o <<Space, 0, Space, 0, Space, 0>>,
      <<Space>> \o m \o <<Space, Space>>,
      [m EXCEPT ![2] = 5] }

MnemonicInputs ==
    {SampleMnemonic(bits) : bits \in ValidBits}
    \cup Variants(SampleMnemonic(128))
    \cup {<<>>, <<0>>, <<Space>>}

\* the passphrases: none, and "w"
Passphrases == {<<>>, <<119>>}

\* the random source is asked only for a valid size
InitMnemonic ==
    /\ wallet = <<>>
    /\ heap = <<>>
    /\ pc = "given"
    /\ candidate \in MnemonicInputs
    /\ \E bits \in BitsInputs, outcome \in RandOutcomes, p \in Passphrases :
          /\ bits \notin ValidBits => outcome.err
          /\ input = [entropyBits |-> bits, rand |-> outcome, passphrase |-> p]
    /\ path = <<>>
    /\ seed = <<>>
    /\ parsed = NoParse
    /\ formatted = <<>>
    /\ derived = NoDerive
    /\ coin = ""
    /\ acct = NoAccount
    /\ verdicts = {}
    /\ cks = <<>>
    /\ calls = <<>>

CallGenerateMnemonic ==
    /\ Len(calls) < MaxMnemonicCalls
    /\ calls' = Append(calls, [op |-> "GenerateMnemonic", arg |-> <<input.entropyBits>>,
                               res |-> GenerateMnemonic(input.entropyBits, input.rand)])
    /\ UNCHANGED <<pc, path, seed, parsed, formatted, derived, coin, acct, candidate, verdicts, cks, input, wallet, heap>>

\* the mnemonics at hand: the given one and those generated so far
KnownMnemonics ==
    {candidate} \cup {calls[k].res.val : k \in {j \in 1..Len(calls) :
                          calls[j].op = "GenerateMnemonic" /\ ~calls[j].res.err}}

CallMnemonicToSeed ==
    /\ Len(calls) < MaxMnemonicCalls
    /\ \E m \in KnownMnemonics :
          calls' = Append(calls, [op |-> "MnemonicToSeed", arg |-> <<m, input.passphrase>>,
                                  res |-> MnemonicToSeed(m, input.passphrase)])
    /\ UNCHANGED <<pc, path, seed, parsed, formatted, derived, coin, acct, candidate, verdicts, cks, input, wallet, heap>>

NextMnemonic == CallGenerateMnemonic \/ CallMnemonicToSeed

SpecMnemonic == InitMnemonic /\ [][NextMnemonic]_vars

(***************************************************************************)
(* claims about the mnemonic calls                                         *)
(***************************************************************************)
GenerateCalls == {k \in 1..Len(calls) : calls[k].op = "GenerateMnemonic"}

SeedCalls == {k \in 1..Len(calls) : calls[k].op = "MnemonicToSeed"}

WordCount(m) == Len(Fields(m))

\* a call of GenerateMnemonic gave the words of its size, and every
\* MnemonicToSeed on its mnemonic gave 64 bytes
GeneratedWell(k) ==
    /\ ~calls[k].res.err
    /\ WordCount(calls[k].res.val) = (calls[k].arg[1] \div 32) * 3
    /\ \A j \in SeedCalls :
          calls[j].arg[1] = calls[k].res.val
              => ~calls[j].res.err /\ Len(calls[j].res.val) = 64

\* C14 as stated: for every bits in {128,160,192,224,256} GenerateMnemonic
\* succeeds with bits/32*3 words, and MnemonicToSeed on that mnemonic
\* succeeds with exactly 64 bytes.
C14_GenerateSucceeds ==
    \A k \in GenerateCalls : calls[k].arg[1] \in ValidBits => GeneratedWell(k)

\* C14, amended: for every bits in {128,160,192,224,256}, whenever the random
\* source delivers the bytes asked of it, GenerateMnemonic succeeds with
\* bits/32*3 words, and MnemonicToSeed on that mnemonic succeeds with
\* exactly 64 bytes.
\* When the random source fails, GenerateMnemonic returns an error and the
\* empty mnemonic.
C14_GenerateSucceedsGivenRandomBytes ==
    \A k \in GenerateCalls :
        calls[k].arg[1] \in ValidBits
            => IF input.rand.err THEN calls[k].res.err /\ calls[k].res.val = <<>>
               ELSE GeneratedWell(k)

C14_Witness ==
    \E k \in GenerateCalls :
        /\ calls[k].arg[1] = 256
        /\ WordCount(calls[k].res.val) = 24
        /\ \E j \in SeedCalls :
              j > k /\ calls[j].arg[1] = calls[k].res.val /\ Len(calls[j].res.val) = 64

\* C15: for every bits outside {128,160,192,224,256} GenerateMnemonic returns
\* an error and the empty mnemonic and asks the random source for no bytes.
C15_InvalidBitsRejected ==
    \A k \in GenerateCalls :
        calls[k].arg[1] \notin {128, 160, 192, 224, 256}
            => /\ calls[k].res.err
               /\ calls[k].res.val = <<>>
               /\ calls[k].res.requested = 0

C15_Witness ==
    \E k \in GenerateCalls :
        calls[k].arg[1] = 96 /\ calls[k].res.err /\ calls[k].res.requested = 0

HasForeignWord(m) == LET words == Fields(m) IN \E k \in 1..Len(words) : ~InWordList(words[k])

WordCountOk(m) == WordCount(m) \in {12, 15, 18, 21, 24}

\* the words of m are those that its own entropy bits encode to
ChecksumMatches(m) ==
    LET words == Fields(m)
        indexes == [k \in 1..Len(words) |-> words[k][1]]
        size == (Len(words) \div 3) * 4
        entropy == [i \in 1..size |-> GroupAt(indexes, 11, 8 * (i - 1) + 1, 8)]
    IN  Fields(NewMnemonic(entropy).val) = words

PassesAllChecks(m) == ~HasForeignWord(m) /\ WordCountOk(m) /\ ChecksumMatches(m)

\* C16: MnemonicToSeed returns an error and no seed for a mnemonic with a
\* word outside the list, a word count not in {12,15,18,21,24}, or a checksum
\* that does not match, and a seed only for mnemonics passing all three.
C16_InvalidMnemonicRejected ==
    \A k \in SeedCalls :
        IF PassesAllChecks(calls[k].arg[1])
        THEN ~calls[k].res.err /\ Len(calls[k].res.val) = 64
        ELSE calls[k].res.err /\ calls[k].res.val = <<>>

C16_Witness ==
    \E k \in SeedCalls :
        /\ ~HasForeignWord(calls[k].arg[1])
        /\ WordCountOk(calls[k].arg[1])
        /\ ~ChecksumMatches(calls[k].arg[1])
        /\ calls[k].res.err

NewBitcoin == [kind |-> "BitcoinCoin", symbol |-> "BTC", coinType |-> U32(0, 0)]

NewDogecoin == [kind |-> "BitcoinCoin", symbol |-> "DOGE", coinType |-> U32(0, 3)]

NewEthereum == [kind |-> "EthereumCoin", symbol |-> "ETH", coinType |-> U32(0, 60)]

NewBinanceCoin == [kind |-> "EthereumCoin", symbol |-> "BNB", coinType |-> U32(0, 60)]

NewTron == [kind |-> "TronCoin", symbol |-> "TRX", coinType |-> U32(0, 195)]

NewSolana == [kind |-> "SolanaCoin", symbol |-> "SOL", coinType |-> U32(0, 501)]

\* the nil types.Coin
NilCoin == [kind |-> "nil", symbol |-> "", coinType |-> Zero32]

GetCoinType(c) == c.coinType

\* fmt.Sprintf of a format with one %d between the texts before and after
Sprintf(before, n, after) == before \o FormatUint(n) \o after

\* the variant of GetStandardDerivationPaths whose Bitcoin paths all have purpose 44
GetStandardDerivationPaths_OnePurpose(c) ==
    LET M(purpose) == <<"m", "/">> \o purpose \o <<"'", "/">>
        legacy == Sprintf(M(<<"4", "4">>), c.coinType, <<"'", "/", "0", "'", "/", "0", "/", "0">>)
    IN  CASE c.kind = "BitcoinCoin" -> <<legacy, legacy, legacy>>
          [] c.kind \in {"EthereumCoin", "TronCoin"} ->
                <<legacy,
                  Sprintf(M(<<"4", "4">>), c.coinType, <<"'", "/", "0", "'", "/", "0", "/", "1">>),
                  Sprintf(M(<<"4", "4">>), c.coinType, <<"'", "/", "1", "'", "/", "0", "/", "0">>)>>
          [] c.kind = "SolanaCoin" ->
                <<Sprintf(M(<<"4", "4">>), c.coinType, <<"'", "/", "0", "'", "/", "0", "'">>),
                  Sprintf(M(<<"4", "4">>), c.coinType, <<"'", "/", "1", "'", "/", "0", "'">>),
                  Sprintf(M(<<"4", "4">>), c.coinType, <<"'", "/", "2", "'", "/", "0", "'">>)>>

\* GetStandardDerivationPaths of BitcoinCoin, EthereumCoin, TronCoin and SolanaCoin
GetStandardDerivationPaths(c) ==
    LET M(purpose) == <<"m", "/">> \o purpose \o <<"'", "/">>
    IN  CASE c.kind = "BitcoinCoin" ->
                <<Sprintf(M(<<"4", "4">>), c.coinType, <<"'", "/", "0", "'", "/", "0", "/", "0">>),
                  Sprintf(M(<<"4", "9">>), c.coinType, <<"'", "/", "0", "'", "/", "0", "/", "0">>),
                  Sprintf(M(<<"8", "4">>), c.coinType, <<"'", "/", "0", "'", "/", "0", "/", "0">>)>>
          [] c.kind \in {"EthereumCoin", "TronCoin"} ->
                <<Sprintf(M(<<"4", "4">>), c.coinType, <<"'", "/", "0", "'", "/", "0", "/", "0">>),
                  Sprintf(M(<<"4", "4">>), c.coinType, <<"'", "/", "0", "'", "/", "0", "/", "1">>),
                  Sprintf(M(<<"4", "4">>), c.coinType, <<"'", "/", "1", "'", "/", "0", "/", "0">>)>>
          [] c.kind = "SolanaCoin" ->
                <<Sprintf(M(<<"4", "4">>), c.coinType, <<"'", "/", "0", "'", "/", "0", "'">>),
                  Sprintf(M(<<"4", "4">>), c.coinType, <<"'", "/", "1", "'", "/", "0", "'">>),
                  Sprintf(M(<<"4", "4">>), c.coinType, <<"'", "/", "2", "'", "/", "0", "'">>)>>

\* main.getStandardPaths
getStandardPaths(c) ==
    IF c.kind \in {"BitcoinCoin", "EthereumCoin", "TronCoin"} THEN GetStandardDerivationPaths(c)
    ELSE <<<<"m", "/", "4", "4", "'", "/", "0", "'", "/", "0", "'", "/", "0", "/", "0">>>>

\* main.getCoinType
getCoinType(c) ==
    IF c.kind \in {"BitcoinCoin", "EthereumCoin", "TronCoin"} THEN GetCoinType(c)
    ELSE Zero32

\* main.getCoinInstance
getCoinInstance(coinType) ==
    CASE coinType = "BTC" -> NewBitcoin
      [] coinType = "ETH" -> NewEthereum
      [] coinType = "DOGE" -> NewDogecoin
      [] coinType = "BNB" -> NewBinanceCoin
      [] coinType = "TRX" -> NewTron
      [] OTHER -> NilCoin

(***************************************************************************)
(* the commands                                                            *)
(***************************************************************************)
NoOutput == [format |-> "", accounts |-> <<>>]

\* main.outputWallet with the default output file; written is whether the
\* generator writes the wallet without an error
outputWallet(accounts, flags) ==
    LET outputFormat ==
            IF flags.paper THEN "paper"
            ELSE IF flags.qrCodes THEN "qr"
            ELSE IF flags.format \in {"json", "text", "paper", "qr"} THEN flags.format
            ELSE ""
    IN  IF outputFormat = "" THEN [err |-> "unsupported format", output |-> NoOutput]
        ELSE IF ~flags.written THEN [err |-> "output failed", output |-> NoOutput]
        ELSE [err |-> "", output |-> [format |-> outputFormat, accounts |-> accounts]]

\* main.wordsToEntropyBits
wordsToEntropyBits(words) ==
    CASE words = 12 -> 128
      [] words = 15 -> 160
      [] words = 18 -> 192
      [] words = 21 -> 224
      [] words = 24 -> 256
      [] OTHER -> 0

\* the coins of createWalletFromMnemonic, in its order
WalletCoins == <<NewBitcoin, NewEthereum, NewDogecoin, NewBinanceCoin, NewTron>>

RECURSIVE WalletAttempts(_)
\* the coin and path of every DeriveAccount of the two loops, from coin i on
WalletAttempts(i) ==
    IF i > Len(WalletCoins) THEN <<>>
    ELSE LET paths == getStandardPaths(WalletCoins[i])
         IN  [j \in 1..Len(paths) |-> [symbol |-> WalletCoins[i].symbol, path |-> paths[j]]]
                 \o WalletAttempts(i + 1)

\* the one element of a set of one element
TheOne(S) == CHOOSE x \in S : TRUE

\* the loops of createWalletFromMnemonic over the coins and their paths, and
\* its output; derived lists the DeriveAccount calls made
WalletOfSeed(seedBytes, flags) ==
    LET attempts == WalletAttempts(1)
    IN  TheOne({ IF \E i \in 1..Len(rs) : rs[i].err
                 THEN [err |-> "failed to derive account",
                       derived |-> SubSeq(attempts, 1,
                                          CHOOSE i \in 1..Len(rs) :
                                              rs[i].err /\ \A j \in 1..(i - 1) : ~rs[j].err),
                       output |-> NoOutput]
                 ELSE TheOne({[err |-> out.err, derived |-> attempts, output |-> out.output] :
                                 out \in {outputWallet([i \in 1..Len(rs) |-> rs[i].account], flags)}})
                 : rs \in {[i \in 1..Len(attempts) |->
                              DeriveAccountOf(attempts[i].symbol, seedBytes, attempts[i].path)]} })

\* main.createWalletFromMnemonic
createWalletFromMnemonic(mnemonic, passphrase, flags) ==
    TheOne({ IF seedRes.err
             THEN [err |-> "failed to convert mnemonic to seed", derived |-> <<>>,
                   output |-> NoOutput]
             ELSE WalletOfSeed(seedRes.val, flags)
             : seedRes \in {MnemonicToSeed(mnemonic, passphrase)} })

\* main.generateWallet
generateWallet(flags) ==
    LET entropyBits == wordsToEntropyBits(flags.words)
    IN  IF entropyBits = 0
        THEN [err |-> "invalid number of words", derived |-> <<>>, output |-> NoOutput]
        ELSE TheOne({ IF generated.err
                      THEN [err |-> "failed to generate mnemonic", derived |-> <<>>,
                            output |-> NoOutput]
                      ELSE createWalletFromMnemonic(generated.val, flags.passphrase, flags)
                      : generated \in {GenerateMnemonic(entropyBits, flags.rand)} })

\* main.recoverWallet
recoverWallet(flags) == createWalletFromMnemonic(flags.mnemonic, flags.passphrase, flags)

\* the steps of deriveAccount that follow the seed
AccountOfSeed(seedBytes, flags) ==
    TheOne({ IF instance = NilCoin
             THEN [err |-> "unsupported coin type", derived |-> <<>>, output |-> NoOutput]
             ELSE TheOne({ IF result.err
                           THEN [err |-> "failed to derive account",
                                 derived |-> <<[symbol |-> instance.symbol, path |-> flags.path]>>,
                                 output |-> NoOutput]
                           ELSE TheOne({[err |-> out.err,
                                         derived |-> <<[symbol |-> instance.symbol,
                                                        path |-> flags.path]>>,
                                         output |-> out.output] :
                                           out \in {outputWallet(<<result.account>>, flags)}})
                           : result \in {DeriveAccountOf(instance.symbol, seedBytes, flags.path)} })
             : instance \in {getCoinInstance(flags.coinType)} })

\* main.deriveAccount
deriveAccount(flags) ==
    TheOne({ IF seedRes.err
             THEN [err |-> "failed to convert mnemonic to seed", derived |-> <<>>,
                   output |-> NoOutput]
             ELSE AccountOfSeed(seedRes.val, flags)
             : seedRes \in {MnemonicToSeed(flags.mnemonic, flags.passphrase)} })

\* the coin symbols given to the derive command
SymbolInputs == {"BTC", "ETH", "DOGE", "BNB", "TRX", "SOL", "LTC", "btc", ""}

\* the paths given to the derive command
CliPaths ==
    { <<"m", "/", "4", "4", "'", "/", "0", "'", "/", "0", "'", "/", "0", "/", "0">>,
      <<"m", "/", "4", "4", "'", "/", "5", "0", "1", "'", "/", "0", "'", "/", "0", "'">>,
      <<"m", "/", "4", "4">>,
      <<>> }

\* the mnemonics given to the recover and derive commands
CliMnemonics ==
    {SampleMnemonic(128), [SampleMnemonic(128) EXCEPT ![1] = (@ + 1) % WordListSize], <<>>}

FormatInputs == {"json", "text", "xml"}

WordsInputs == {12, 13, 24}

\* the flags at their defaults, the random source and the generator at an outcome
DefaultFlags(outcome, w) ==
    [cmd |-> "", words |-> 12, mnemonic |-> <<>>, passphrase |-> <<>>, coinType |-> "",
     path |-> <<>>, format |-> "json", paper |-> FALSE, qrCodes |-> FALSE,
     rand |-> outcome, written |-> w]

\* the state before a command with the flags fl
Started(fl) ==
    /\ wallet = <<>>
    /\ heap = <<>>
    /\ pc = "start"
    /\ input = fl
    /\ path = <<>>
    /\ seed = <<>>
    /\ parsed = NoParse
    /\ formatted = <<>>
    /\ derived = NoDerive
    /\ coin = ""
    /\ acct = NoAccount
    /\ candidate = <<>>
    /\ verdicts = {}
    /\ cks = <<>>
    /\ calls = <<>>

\* the flags of a generate command
InitGenerate ==
    \E w \in BOOLEAN, p \in Passphrases, n \in WordsInputs, outcome \in RandOutcomes,
       f \in FormatInputs, pp, qr \in BOOLEAN :
        Started([DefaultFlags(outcome, w) EXCEPT !.cmd = "generate", !.words = n,
                     !.passphrase = p, !.format = f, !.paper = pp, !.qrCodes = qr])

\* the flags of a recover command
InitRecover ==
    \E w \in BOOLEAN, p \in Passphrases, m \in MnemonicInputs :
        Started([DefaultFlags([err |-> TRUE, k |-> 0], w) EXCEPT !.cmd = "recover",
                     !.mnemonic = m, !.passphrase = p])

\* the flags of a derive command
InitDerive ==
    \E w \in BOOLEAN, p \in Passphrases, m \in CliMnemonics, c \in SymbolInputs,
       dpath \in CliPaths, f \in FormatInputs, qr \in BOOLEAN :
        Started([DefaultFlags([err |-> TRUE, k |-> 0], w) EXCEPT !.cmd = "derive",
                     !.mnemonic = m, !.passphrase = p, !.coinType = c, !.path = dpath,
                     !.format = f, !.qrCodes = qr])

\* a command ran to its end with a result
Ran(result) ==
    /\ pc = "start"
    /\ pc' = "done"
    /\ calls' = Append(calls, [op |-> input.cmd, arg |-> input, res |-> result])
    /\ UNCHANGED <<path, seed, parsed, formatted, derived, coin, acct, candidate, verdicts, cks, input, wallet, heap>>

NoResult(text) == [err |-> text, derived |-> <<>>, output |-> NoOutput]

\* RunE of generateCmd
generateCmd ==
    /\ input.cmd = "generate"
    /\ Ran(generateWallet(input))

\* RunE of recoverCmd
recoverCmd ==
    /\ input.cmd = "recover"
    /\ Ran(IF input.mnemonic = <<>> THEN NoResult("mnemonic phrase is required")
           ELSE recoverWallet(input))

\* RunE of deriveCmd
deriveCmd ==
    /\ input.cmd = "derive"
    /\ Ran(IF input.mnemonic = <<>> THEN NoResult("mnemonic phrase is required")
           ELSE IF input.coinType = "" THEN NoResult("coin type is required")
           ELSE IF input.path = <<>> THEN NoResult("derivation path is required")
           ELSE deriveAccount(input))

SpecGenerate == InitGenerate /\ [][generateCmd]_vars

SpecRecover == InitRecover /\ [][recoverCmd]_vars

SpecDerive == InitDerive /\ [][deriveCmd]_vars

(***************************************************************************)
(* claims about the commands                                               *)
(***************************************************************************)
DocumentedSymbols == {"BTC", "DOGE", "ETH", "BNB", "TRX", "SOL"}

\* the runs of the derive command that reach the coin selection
DeriveRuns ==
    {k \in 1..Len(calls) : /\ calls[k].op = "derive"
                           /\ IsMnemonicValid(calls[k].arg.mnemonic)
                           /\ calls[k].arg.coinType # ""
                           /\ calls[k].arg.path # <<>>}

\* C18: the coin selection of the derive command returns a coin instance for
\* each of BTC, DOGE, ETH, BNB, TRX and SOL, and for every other symbol the
\* command fails with the unsupported-coin error, derives nothing and writes
\* no output.
C18_CoinLookup ==
    \A k \in DeriveRuns :
        IF calls[k].arg.coinType \in DocumentedSymbols
        THEN /\ calls[k].res.err # "unsupported coin type"
             /\ calls[k].res.derived =
                    <<[symbol |-> calls[k].arg.coinType, path |-> calls[k].arg.path]>>
        ELSE /\ calls[k].res.err = "unsupported coin type"
             /\ calls[k].res.derived = <<>>
             /\ calls[k].res.output = NoOutput

SupportedCoins == {NewBitcoin, NewEthereum, NewDogecoin, NewBinanceCoin, NewTron, NewSolana}

\* the wallet-generation passes that ran to their end
WalletRuns ==
    {k \in 1..Len(calls) : calls[k].op \in {"generate", "recover"} /\ calls[k].res.err = ""}

\* the paths of the accounts of a symbol, in the order of the accounts
AccountPathsOf(accounts, symbol) ==
    LET mine == {i \in 1..Len(accounts) : accounts[i].Symbol = symbol}
        Nth(n) == CHOOSE i \in mine : Cardinality({j \in mine : j < i}) = n - 1
    IN  [n \in 1..Cardinality(mine) |-> accounts[Nth(n)].Path]

\* C19: a full wallet-generation pass derives, for each of Bitcoin, Ethereum,
\* Dogecoin, BNB, TRON and Solana, exactly the standard derivation paths of
\* the coin in order, so that the wallet holds one account per standard path
\* of each coin.
C19_WalletPassDerivesAll ==
    \A k \in WalletRuns : \A c \in SupportedCoins :
        AccountPathsOf(calls[k].res.output.accounts, c.symbol) = GetStandardDerivationPaths(c)

(***************************************************************************)
(* the standard paths of the coins                                         *)
(***************************************************************************)
\* largest number of calls in a row
MaxPathCalls == 2

CoinInstances == {NewBitcoin, NewEthereum, NewDogecoin, NewBinanceCoin, NewTron, NewSolana}

InitCoins ==
    /\ wallet = <<>>
    /\ heap = <<>>
    /\ pc = "given"
    /\ path = <<>>
    /\ seed = <<>>
    /\ parsed = NoParse
    /\ formatted = <<>>
    /\ derived = NoDerive
    /\ coin = ""
    /\ acct = NoAccount
    /\ candidate = <<>>
    /\ verdicts = {}
    /\ cks = <<>>
    /\ calls = <<>>
    /\ input = <<>>

CallGetStandardDerivationPaths ==
    /\ Len(calls) < MaxPathCalls
    /\ \E c \in CoinInstances :
          calls' = Append(calls, [op |-> "GetStandardDerivationPaths", arg |-> c,
                                  res |-> GetStandardDerivationPaths(c)])
    /\ UNCHANGED <<pc, path, seed, parsed, formatted, derived, coin, acct, candidate, verdicts, cks, input, wallet, heap>>

CallGetCoinType ==
    /\ Len(calls) < MaxPathCalls
    /\ \E c \in CoinInstances :
          calls' = Append(calls, [op |-> "GetCoinType", arg |-> c, res |-> GetCoinType(c)])
    /\ UNCHANGED <<pc, path, seed, parsed, formatted, derived, coin, acct, candidate, verdicts, cks, input, wallet, heap>>

NextCoins == CallGetStandardDerivationPaths \/ CallGetCoinType

SpecCoins == InitCoins /\ [][NextCoins]_vars

\* the paths of the coin table
CoinTable(symbol) ==
    CASE symbol = "BTC" ->
        <<<<"m", "/", "4", "4", "'", "/", "0", "'", "/", "0", "'", "/", "0", "/", "0">>,
          <<"m", "/", "4", "9", "'", "/", "0", "'", "/", "0", "'", "/", "0", "/", "0">>,
          <<"m", "/", "8", "4", "'", "/", "0", "'", "/", "0", "'", "/", "0", "/", "0">>>>
      [] symbol = "DOGE" ->
        <<<<"m", "/", "4", "4", "'", "/", "3", "'", "/", "0", "'", "/", "0", "/", "0">>,
          <<"m", "/", "4", "9", "'", "/", "3", "'", "/", "0", "'", "/", "0", "/", "0">>,
          <<"m", "/", "8", "4", "'", "/", "3", "'", "/", "0", "'", "/", "0", "/", "0">>>>
      [] symbol = "ETH" ->
        <<<<"m", "/", "4", "4", "'", "/", "6", "0", "'", "/", "0", "'", "/", "0", "/", "0">>,
          <<"m", "/", "4", "4", "'", "/", "6", "0", "'", "/", "0", "'", "/", "0", "/", "1">>,
          <<"m", "/", "4", "4", "'", "/", "6", "0", "'", "/", "1", "'", "/", "0", "/", "0">>>>
      [] symbol = "BNB" ->
        <<<<"m", "/", "4", "4", "'", "/", "6", "0", "'", "/", "0", "'", "/", "0", "/", "0">>,
          <<"m", "/", "4", "4", "'", "/", "6", "0", "'", "/", "0", "'", "/", "0", "/", "1">>,
          <<"m", "/", "4", "4", "'", "/", "6", "0", "'", "/", "1", "'", "/", "0", "/", "0">>>>
      [] symbol = "TRX" ->
        <<<<"m", "/", "4", "4", "'", "/", "1", "9", "5", "'", "/", "0", "'", "/", "0", "/", "0">>,
          <<"m", "/", "4", "4", "'", "/", "1", "9", "5", "'", "/", "0", "'", "/", "0", "/", "1">>,
          <<"m", "/", "4", "4", "'", "/", "1", "9", "5", "'", "/", "1", "'", "/", "0", "/", "0">>>>
      [] symbol = "SOL" ->
        <<<<"m", "/", "4", "4", "'", "/", "5", "0", "1", "'", "/", "0", "'", "/", "0", "'">>,
          <<"m", "/", "4", "4", "'", "/", "5", "0", "1", "'", "/", "1", "'", "/", "0", "'">>,
          <<"m", "/", "4", "4", "'", "/", "5", "0", "1", "'", "/", "2", "'", "/", "0", "'">>>>

\* the number that the coin-type component of a path spells
CoinTypeComponent(p) ==
    LET part == Split(p, "/")[3]
    IN  ParseUint(SubSeq(part, 1, Len(part) - 1)).val

PathCalls == {k \in 1..Len(calls) : calls[k].op = "GetStandardDerivationPaths"}

CoinTypeCalls == {k \in 1..Len(calls) : calls[k].op = "GetCoinType"}

\* C20: GetStandardDerivationPaths of a coin returns exactly the three paths
\* of the coin table in their order, and the coin-type component of each of
\* them is the number that GetCoinType of the coin returns.
C20_StandardPaths ==
    \A k \in PathCalls :
        /\ calls[k].res = CoinTable(calls[k].arg.symbol)
        /\ Len(calls[k].res) = 3
        /\ \A j \in CoinTypeCalls :
              calls[j].arg = calls[k].arg
                  => \A n \in 1..Len(calls[k].res) :
                         CoinTypeComponent(calls[k].res[n]) = calls[j].res

C20_Witness ==
    \E k \in PathCalls, j \in CoinTypeCalls :
        /\ calls[k].arg = NewSolana
        /\ calls[j].arg = NewSolana
        /\ calls[k].res = CoinTable("SOL")
        /\ CoinTypeComponent(calls[k].res[3]) = calls[j].res

(***************************************************************************)
(* claims about the accounts that DeriveAccount returns                    *)
(***************************************************************************)
\* C21: a DeriveAccount call that returns an error returns the zero Account
\* beside it, for every coin and for every cause of the error.
C21_FailedDerivationZeroAccount ==
    pc = "failed" => acct.err /\ acct.account = ZeroAccount

\* a Bitcoin-family call whose path parses and whose key derivation fails
C21_Witness ==
    /\ pc = "failed"
    /\ coin \in {"BTC", "DOGE"}
    /\ ~ParseDerivationPath(path).err
    /\ acct.err

(***************************************************************************)
(* DeriveAccount calls in flight on one seed.  Every call is a goroutine   *)
(* of three steps: the key derivation, the construction of the account and *)
(* the zeroing of the working key with the return.  heap lists the         *)
(* private-key buffers that the calls have created, each with the bytes it *)
(* holds now; a call refers to a buffer by its position in heap.           *)
(***************************************************************************)
\* largest number of DeriveAccount calls in flight on one seed
MaxDerivations == 2

\* a coin of every implementation with its first standard path, and a coin
\* with a path of the other key scheme
DerivationInputs ==
    {<<c, CoinTable(c)[1]>> : c \in {"BTC", "ETH", "TRX", "SOL"}}
        \cup {<<"DOGE", CoinTable("SOL")[1]>>}

RECURSIVE ChildKeys(_, _)
\* the child keys that the NewChildKey steps of DeriveKey create, up to the
\* first step that fails
ChildKeys(key, idxs) ==
    IF Len(idxs) = 0 THEN <<>>
    ELSE LET r == NewChildKey(key, Head(idxs))
         IN  IF r.err THEN <<>> ELSE <<r.key.Key>> \o ChildKeys(r.key, Tail(idxs))

\* the private scalars of the keys that DeriveKey has created when it
\* returns: the master key and the child keys, the returned key last
DeriveKeyScalars(sd, p) ==
    LET derivePath == ParseDerivationPath(p)
        masterKey == NewMasterKey(sd)
        dp == derivePath.dp
    IN  IF derivePath.err \/ masterKey.err THEN <<>>
        ELSE <<masterKey.key.Key>> \o
             ChildKeys(masterKey.key,
                       <<Add32(dp.Purpose, FirstHardenedChild),
                         Add32(dp.CoinType, FirstHardenedChild),
                         Add32(dp.Account, FirstHardenedChild),
                         dp.Change,
                         dp.Index>>)

RECURSIVE CKDScalars(_, _)
\* the keys that the loop of hdwallet.Derived creates
CKDScalars(key, segments) ==
    IF Len(segments) = 0 THEN <<>>
    ELSE LET num == ParseUint(SubSeq(Head(segments), 1, Len(Head(segments)) - 1))
             child == CKDPriv(key, Add32(num.val, FirstHardenedChild))
         IN  IF num.err THEN <<>>
             ELSE <<child.PrivateKey>> \o CKDScalars(child, Tail(segments))

\* the private scalars of the keys that hdwallet.Derived has created when it
\* returns
DerivedScalars(p, sd) ==
    LET hm == HmacSha512(Ed25519SeedKey, sd)
    IN  IF ~isValidPath(p) THEN <<>>
        ELSE <<hm.IL>> \o CKDScalars([PrivateKey |-> hm.IL, ChainCode |-> hm.IR],
                                     Tail(Split(p, "/")))

\* the key derivation of the coin with symbol c: its error, and the scalars
\* of the keys it created
KeyDerivationOf(c, sd, p) ==
    IF c = "SOL"
    THEN [err |-> Derived(p, sd).err, scalars |-> DerivedScalars(p, sd)]
    ELSE [err |-> DeriveKey(sd, p).err, scalars |-> DeriveKeyScalars(sd, p)]

\* the variant in which the returned key is the first buffer of the heap
FreshRef_First(h, scalars) == Len(scalars)

\* the position of the returned key, the last of the buffers that the
\* derivation appends to heap h
FreshRef(h, scalars) == Len(h) + Len(scalars)

\* the buffers of call i for the keys of its derivation
KeyBuffers(i, scalars) ==
    [k \in 1..Len(scalars) |->
        [call |-> i,
         role |-> IF k = 1 THEN "master" ELSE IF k = Len(scalars) THEN "derived" ELSE "child",
         bytes |-> KeyBytes(scalars[k])]]

\* the scalar that the 32 big-endian bytes of a key buffer spell
SetBytes(bs) == bs[32]

\* the account literal that DeriveAccount of coin c builds from the bytes of
\* the derived key; shared tells whether PrivateKey is the key buffer itself
AccountLiteral(c, p, privateKeyBytes) ==
    LET point == PubPoint(SetBytes(privateKeyBytes))
    IN  CASE c \in {"BTC", "DOGE"} ->
               [shared |-> FALSE,
                account |-> [Path |-> p,
                             PrivateKey |-> KeyBytes(SetBytes(privateKeyBytes)),
                             PublicKey |-> SerializeCompressed(point),
                             Address |-> BtcPublicKeyToAddress(SerializeCompressed(point), NetParams(c)),
                             Symbol |-> c]]
          [] c \in {"ETH", "BNB"} ->
               [shared |-> TRUE,
                account |-> [Path |-> p,
                             PrivateKey |-> <<>>,
                             PublicKey |-> FromECDSAPub(point),
                             Address |-> EthPublicKeyToAddress(FromECDSAPub(point)),
                             Symbol |-> c]]
          [] c = "TRX" ->
               [shared |-> TRUE,
                account |-> [Path |-> p,
                             PrivateKey |-> <<>>,
                             PublicKey |-> FromECDSAPub(point),
                             Address |-> TronPublicKeyToAddress(FromECDSAPub(point)),
                             Symbol |-> c]]
          [] OTHER ->
               [shared |-> FALSE,
                account |-> [Path |-> p,
                             PrivateKey |-> privateKeyBytes \o Ed25519PublicKey(privateKeyBytes),
                             PublicKey |-> Ed25519PublicKey(privateKeyBytes),
                             Address |-> Base58Encode(Ed25519PublicKey(privateKeyBytes)),
                             Symbol |-> c]]

\* a call that has not started
NewCall(c, p) ==
    [coin |-> c, path |-> p, pc |-> "start", err |-> FALSE, key |-> 0,
     shared |-> FALSE, account |-> ZeroAccount]

InitDerivations ==
    /\ pc = "given"
    /\ path = <<>>
    /\ parsed = NoParse
    /\ formatted = <<>>
    /\ derived = NoDerive
    /\ coin = ""
    /\ acct = NoAccount
    /\ candidate = <<>>
    /\ verdicts = {}
    /\ cks = <<>>
    /\ wallet = <<>>
    /\ heap = <<>>
    /\ seed \in Seeds
    /\ input = seed
    /\ \E n \in 1..MaxDerivations :
          \E args \in [1..n -> DerivationInputs] :
              calls = [i \in 1..n |-> NewCall(args[i][1], args[i][2])]

\* the first step of call i: crypto.DeriveKey or hdwallet.Derived on the
\* caller's seed; a failed derivation returns at once
CallDeriveKey(i) ==
    /\ calls[i].pc = "start"
    /\ LET key == KeyDerivationOf(calls[i].coin, seed, calls[i].path)
       IN  /\ heap' = heap \o KeyBuffers(i, key.scalars)
           /\ calls' = [calls EXCEPT ![i] =
                            [@ EXCEPT !.pc = IF key.err THEN "returned" ELSE "keyed",
                                      !.err = key.err,
                                      !.key = IF key.err THEN 0 ELSE FreshRef(heap, key.scalars)]]
    /\ UNCHANGED <<pc, path, seed, parsed, formatted, derived, coin, acct, candidate, verdicts, cks, input, wallet>>

\* the second step of call i: the public key, the address and the account
\* literal, from the bytes that the key buffer holds
BuildAccount(i) ==
    /\ calls[i].pc = "keyed"
    /\ LET lit == AccountLiteral(calls[i].coin, calls[i].path, heap[calls[i].key].bytes)
       IN  calls' = [calls EXCEPT ![i] =
                        [@ EXCEPT !.pc = "built", !.shared = lit.shared, !.account = lit.account]]
    /\ UNCHANGED <<pc, path, seed, parsed, formatted, derived, coin, acct, candidate, verdicts, cks, input, wallet, heap>>

\* the last step of call i: SecureZeroMemory on the derived key, and the
\* return of the account, whose PrivateKey is read where it lies
ZeroAndReturn(i) ==
    /\ calls[i].pc = "built"
    /\ heap' = [heap EXCEPT ![calls[i].key].bytes = SecureZeroMemory(@)]
    /\ calls' = [calls EXCEPT ![i] =
                    [@ EXCEPT !.pc = "returned",
                              !.account.PrivateKey =
                                  IF calls[i].shared THEN heap'[calls[i].key].bytes ELSE @]]
    /\ UNCHANGED <<pc, path, seed, parsed, formatted, derived, coin, acct, candidate, verdicts, cks, input, wallet>>

NextDerivations ==
    \E i \in 1..Len(calls) : CallDeriveKey(i) \/ BuildAccount(i) \/ ZeroAndReturn(i)

SpecDerivations == InitDerivations /\ [][NextDerivations]_vars

(***************************************************************************)
(* claims about the calls in flight                                        *)
(***************************************************************************)
\* whether every byte is zero
IsZeroed(bs) == \A k \in 1..Len(bs) : bs[k] = 0

Returned == {i \in 1..Len(calls) : calls[i].pc = "returned"}

\* C22: when a derivation call returns, with or without an error, every
\* private-key buffer that it created (master key, intermediate child keys,
\* derived key) holds zero bytes only.
C22_SecretBuffersZeroed ==
    \A i \in Returned :
        \A k \in 1..Len(heap) : heap[k].call = i => IsZeroed(heap[k].bytes)

(***************************************************************************)
(* the output generator.  A document is the sequence of the fields written *)
(* to it, each with its name and the value rendered; the indentation, the  *)
(* fixed text of the templates, the time stamps and the coin-type table    *)
(* are left out.  The write itself (standard output or a file) is taken to *)
(* succeed.                                                                *)
(***************************************************************************)
\* largest number of GenerateWallet calls on one wallet
MaxOutputs == 2

Field(name, value) == [field |-> name, value |-> value]

RECURSIVE Flatten(_)
\* the concatenation of a sequence of sequences
Flatten(ss) == IF Len(ss) = 0 THEN <<>> ELSE Head(ss) \o Flatten(Tail(ss))

\* json.Marshal of a types.Account: private_key is left out when empty
marshalAccount(a) ==
    <<Field("path", a.Path)>>
        \o (IF Len(a.PrivateKey) > 0 THEN <<Field("private_key", a.PrivateKey)>> ELSE <<>>)
        \o <<Field("public_key", a.PublicKey), Field("address", a.Address), Field("symbol", a.Symbol)>>

\* json.Marshal of a types.Wallet: mnemonic and seed are left out when empty
marshalWallet(w) ==
    (IF Len(w.Mnemonic) > 0 THEN <<Field("mnemonic", w.Mnemonic)>> ELSE <<>>)
        \o (IF Len(w.Seed) > 0 THEN <<Field("seed", w.Seed)>> ELSE <<>>)
        \o Flatten([i \in 1..Len(w.Accounts) |-> marshalAccount(w.Accounts[i])])
        \o <<Field("version", w.Version)>>

\* the variant of MarshalSafeJSON that copies the private key too
MarshalSafeJSON_WithPrivateKey(w) ==
    Flatten([i \in 1..Len(w.Accounts) |->
                <<Field("path", w.Accounts[i].Path),
                  Field("private_key", w.Accounts[i].PrivateKey),
                  Field("public_key", w.Accounts[i].PublicKey),
                  Field("address", w.Accounts[i].Address),
                  Field("symbol", w.Accounts[i].Symbol)>>])
        \o <<Field("version", w.Version)>>

\* Wallet.MarshalSafeJSON: the SafeAccount of every account, and the version
MarshalSafeJSON(w) ==
    Flatten([i \in 1..Len(w.Accounts) |->
                <<Field("path", w.Accounts[i].Path),
                  Field("public_key", w.Accounts[i].PublicKey),
                  Field("address", w.Accounts[i].Address),
                  Field("symbol", w.Accounts[i].Symbol)>>])
        \o <<Field("version", w.Version)>>

\* Generator.generateJSON.  With a flag set the wallet itself is embedded in
\* the marshalled struct, and the fields not asked for are cleared in it
generateJSON(w, o) ==
    IF o.IncludePrivate \/ o.IncludeMnemonic
    THEN LET noMnemonic == IF ~o.IncludeMnemonic
                           THEN [w EXCEPT !.Mnemonic = <<>>, !.Seed = <<>>]
                           ELSE w
             sensitive == IF ~o.IncludePrivate
                          THEN [noMnemonic EXCEPT !.Accounts =
                                   [i \in 1..Len(w.Accounts) |->
                                       [w.Accounts[i] EXCEPT !.PrivateKey = <<>>]]]
                          ELSE noMnemonic
         IN  [wallet |-> sensitive,
              err |-> "",
              out |-> marshalWallet(sensitive)
                          \o <<Field("includes_private_keys", o.IncludePrivate),
                               Field("includes_mnemonic", o.IncludeMnemonic)>>]
    ELSE [wallet |-> w, err |-> "", out |-> MarshalSafeJSON(w)]

\* Generator.generateText
generateText(w, o) ==
    [wallet |-> w,
     err |-> "",
     out |-> <<Field("version", w.Version)>>
                 \o (IF o.IncludeMnemonic THEN <<Field("mnemonic", w.Mnemonic)>> ELSE <<>>)
                 \o Flatten([i \in 1..Len(w.Accounts) |->
                        <<Field("symbol", w.Accounts[i].Symbol),
                          Field("path", w.Accounts[i].Path),
                          Field("address", w.Accounts[i].Address)>>
                            \o (IF o.IncludePrivate
                                THEN <<Field("private_key", HexEncode(w.Accounts[i].PrivateKey))>>
                                ELSE <<>>)
                            \o <<Field("public_key", HexEncode(w.Accounts[i].PublicKey))>>])]

\* Generator.generatePaperWallet
generatePaperWallet(w, o) ==
    [wallet |-> w,
     err |-> "",
     out |-> (IF o.IncludeMnemonic THEN <<Field("mnemonic", w.Mnemonic)>> ELSE <<>>)
                 \o Flatten([i \in 1..Len(w.Accounts) |->
                        <<Field("symbol", w.Accounts[i].Symbol),
                          Field("path", w.Accounts[i].Path),
                          Field("address", w.Accounts[i].Address)>>
                            \o (IF o.IncludePrivate
                                THEN <<Field("private_key", HexEncode(w.Accounts[i].PrivateKey))>>
                                ELSE <<>>)])]

\* Generator.generateQRCodes: the texts of the QR codes, and what README.txt
\* lists
generateQRCodes(w, o) ==
    [wallet |-> w,
     err |-> "",
     out |-> (IF o.IncludeMnemonic /\ w.Mnemonic # <<>>
              THEN <<Field("mnemonic", w.Mnemonic)>> ELSE <<>>)
                 \o Flatten([i \in 1..Len(w.Accounts) |->
                        <<Field("address", w.Accounts[i].Address)>>
                            \o (IF o.IncludePrivate /\ Len(w.Accounts[i].PrivateKey) > 0
                                THEN <<Field("private_key", HexEncode(w.Accounts[i].PrivateKey))>>
                                ELSE <<>>)])
                 \o <<Field("readme", [mnemonicFile |-> o.IncludeMnemonic,
                                       privateFiles |-> o.IncludePrivate])>>]

\* Generator.GenerateWallet
GenerateWallet(w, o) ==
    CASE o.Format = "json" -> generateJSON(w, o)
      [] o.Format = "text" -> generateText(w, o)
      [] o.Format = "paper" -> generatePaperWallet(w, o)
      [] o.Format = "qr" -> generateQRCodes(w, o)
      [] OTHER -> [wallet |-> w, err |-> "unsupported output format", out |-> <<>>]

\* the four formats and a value of OutputFormat that is none of them
OutputOptions ==
    [Format : {"json", "text", "qr", "paper", "other"},
     IncludePrivate : BOOLEAN,
     IncludeMnemonic : BOOLEAN]

\* accounts as DeriveAccount returns them: one with its private key, one whose
\* private key is 32 zero bytes, one without a private key
SampleAccounts ==
    <<[Path |-> CoinTable("BTC")[1],
       PrivateKey |-> KeyBytes(7),
       PublicKey |-> SerializeCompressed(PubPoint(7)),
       Address |-> BtcPublicKeyToAddress(SerializeCompressed(PubPoint(7)), MainNetParams),
       Symbol |-> "BTC"],
      [Path |-> CoinTable("ETH")[1],
       PrivateKey |-> SecureZeroMemory(KeyBytes(3)),
       PublicKey |-> FromECDSAPub(PubPoint(3)),
       Address |-> EthPublicKeyToAddress(FromECDSAPub(PubPoint(3))),
       Symbol |-> "ETH"],
      [Path |-> CoinTable("SOL")[1],
       PrivateKey |-> <<>>,
       PublicKey |-> Ed25519PublicKey(KeyBytes(5)),
       Address |-> Base58Encode(Ed25519PublicKey(KeyBytes(5))),
       Symbol |-> "SOL"]>>

\* wallets with and without a mnemonic, a seed and accounts
Wallets ==
    [Mnemonic : {<<>>, SampleMnemonic(128)},
     Seed : {<<>>, SeedBytes(1)},
     Accounts : {SubSeq(SampleAccounts, 1, n) : n \in 0..Len(SampleAccounts)},
     Version : {<<"0", ".", "1", ".", "0">>}]

InitOutput ==
    /\ pc = "given"
    /\ path = <<>>
    /\ seed = <<>>
    /\ parsed = NoParse
    /\ formatted = <<>>
    /\ derived = NoDerive
    /\ coin = ""
    /\ acct = NoAccount
    /\ candidate = <<>>
    /\ verdicts = {}
    /\ cks = <<>>
    /\ heap = <<>>
    /\ calls = <<>>
    /\ wallet \in Wallets
    /\ input = wallet

\* a call of GenerateWallet on the wallet, by a generator of any options
CallGenerateWallet ==
    /\ Len(calls) < MaxOutputs
    /\ \E o \in OutputOptions :
          LET r == GenerateWallet(wallet, o)
          IN  /\ wallet' = r.wallet
              /\ calls' = Append(calls, [op |-> "GenerateWallet", options |-> o,
                                         given |-> wallet, err |-> r.err, out |-> r.out])
    /\ UNCHANGED <<pc, path, seed, parsed, formatted, derived, coin, acct, candidate, verdicts, cks, input, heap>>

NextOutput == CallGenerateWallet

SpecOutput == InitOutput /\ [][NextOutput]_vars

(***************************************************************************)
(* claims about the output generator                                       *)
(***************************************************************************)
\* whether a document has a field of one of the names
HasField(out, names) == \E k \in 1..Len(out) : out[k].field \in names

MaxCandidateLen == 70

\* s[lo:hi] of Go is in range
SliceInRange(s, lo, hi) == 0 <= lo /\ lo <= hi /\ hi <= Len(s)

\* s[i] of Go is in range
IndexInRange(s, i) == 0 <= i /\ i < Len(s)

\* the variant of TronCoin.ValidateAddress without the length test before
\* the slices
TronValidateAddressPanics_NoLengthTest(address) ==
    LET decoded == Base58Decode(address)
    IN  \/ ~SliceInRange(decoded, 0, TronPayloadLen)
        \/ ~SliceInRange(decoded, TronPayloadLen, Len(decoded))
        \/ ~IndexInRange(SubSeq(decoded, 1, TronPayloadLen), 0)
        \/ ~IndexInRange(SubSeq(decoded, TronPayloadLen + 1, Len(decoded)), 0)

\* whether TronCoin.ValidateAddress panics: decoded[:21], decoded[21:],
\* addressBytes[0] and the checksum bytes compared up to the first that
\* differs
TronValidateAddressPanics(address) ==
    LET decoded == Base58Decode(address)
        addressBytes == SubSeq(decoded, 1, TronPayloadLen)
        providedChecksum == SubSeq(decoded, TronPayloadLen + 1, Len(decoded))
        expectedChecksum == doubleSHA256(addressBytes)
    IN  IF Len(decoded) # TronAddressLen THEN FALSE
        ELSE \/ ~SliceInRange(decoded, 0, TronPayloadLen)
             \/ ~SliceInRange(decoded, TronPayloadLen, Len(decoded))
             \/ ~IndexInRange(addressBytes, 0)
             \/ /\ addressBytes[1] = TronPrefix
                /\ \E i \in 0..(ChecksumLen - 1) :
                      /\ \A j \in 0..(i - 1) : providedChecksum[j + 1] = expectedChecksum[j + 1]
                      /\ ~(IndexInRange(providedChecksum, i) /\ IndexInRange(expectedChecksum, i))

\* whether EthereumCoin.ValidateAddress panics: hashHex[i] in
\* toChecksumAddress, for the 64 characters of hashHex
EthValidateAddressPanics(address) ==
    IF ~HasPrefix(address, <<"0", "x">>) THEN FALSE
    ELSE IF ~IsHexAddress(address) THEN FALSE
    ELSE IF hasMixedCase(address)
         THEN \E i \in 0..(Len(TrimPrefix(address, <<"0", "x">>)) - 1) : i >= 64
    ELSE FALSE

\* whether ValidateAddress of the coin with symbol c panics; the Solana and
\* Bitcoin implementations index nothing themselves and take what their
\* decoder returns
ValidateAddressPanicsOf(c, address) ==
    CASE c \in {"ETH", "BNB"} -> EthValidateAddressPanics(address)
      [] c = "TRX" -> TronValidateAddressPanics(address)
      [] OTHER -> FALSE

\* the two bytes of the UTF-8 form of U+00E9
NonAscii == <<"xC3", "xA9">>

\* the empty string, strings with characters outside every alphabet and
\* outside ASCII, strings of many lengths, and an address of every family
TotalityInputs ==
    OtherInputs
        \cup {NonAscii, <<"0", "x">> \o NonAscii, <<"b", "c", "1">> \o NonAscii, <<"T">> \o NonAscii}
        \cup {<<"0", "x">> \o [i \in 1..n |-> "a"] :
                 n \in {2 * AddressLength - 1, 2 * AddressLength, 2 * AddressLength + 1, 65, MaxCandidateLen - 2}}
        \cup {[i \in 1..n |-> ch] : n \in {1, TronAddressLen, KeySize32, 2 * KeySize32}, ch \in {"1", "z"}}
        \cup {Base58Encode(bs) : bs \in UNION {Damaged(<<TronPrefix>> \o payload) : payload \in Payloads(AddressLength)}}
        \cup {SampleAccounts[i].Address : i \in 1..Len(SampleAccounts)}

InitValidate ==
    /\ pc = "given"
    /\ path = <<>>
    /\ seed = <<>>
    /\ parsed = NoParse
    /\ formatted = <<>>
    /\ derived = NoDerive
    /\ coin = ""
    /\ acct = NoAccount
    /\ verdicts = {}
    /\ cks = <<>>
    /\ heap = <<>>
    /\ wallet = <<>>
    /\ calls = <<>>
    /\ candidate \in TotalityInputs
    /\ input = candidate

\* a call of ValidateAddress(candidate) of coin c: whether it panics, and
\* what it returns if it does not
CallValidateAddress(c) ==
    /\ Len(calls) < MaxCalls
    /\ calls' = Append(calls, [op |-> "ValidateAddress", coin |-> c, arg |-> candidate,
                               panics |-> ValidateAddressPanicsOf(c, candidate),
                               res |-> ValidateAddressOf(c, candidate)])
    /\ UNCHANGED <<pc, path, seed, parsed, formatted, derived, coin, acct, candidate, verdicts, cks, input, wallet, heap>>

NextValidate == \E c \in Coins : CallValidateAddress(c)

SpecValidate == InitValidate /\ [][NextValidate]_vars

\* whether a string has a byte outside ASCII
HasNonAscii(s) == \E i \in 1..Len(s) : Ord(s[i]) > 127

InvalidChildStep(sd, p) ==
    /\ ~ParseDerivationPath(p).err
    /\ ~NewMasterKey(sd).err
    /\ Len(DeriveKeyScalars(sd, p)) < 6

\* C25 (as claimed): a child-key step that yields an invalid scalar is
\* retried with the next index, so DeriveKey returns no error for it.
C25_InvalidChildRetried ==
    (pc = "derived" /\ InvalidChildStep(seed, path)) => ~derived.err

(***************************************************************************)
(* claims about the Solana paths                                           *)
(***************************************************************************)
\* m/<p>'/<c>'/<a>'/<i>': m and exactly four components of digits and a quote
IsFourHardened(p) == isValidPath(p) /\ Len(Split(p, "/")) = 5

\* C26 (as claimed): SolanaCoin.DeriveAccount succeeds only for a path of
\* exactly four components, all of them hardened.
C26_SolanaFourHardened ==
    (pc = "derived" /\ coin = "SOL") => IsFourHardened(path)

(***************************************************************************)
(* claims about derivations that share a seed                              *)
(***************************************************************************)
\* C27: whatever the interleaving of the DeriveAccount calls on one seed, the
\* seed keeps its bytes, and every call returns the error, the key material
\* and the address that the same call returns when it runs alone.
C27_IndependentDerivations ==
    /\ seed = input
    /\ \A i \in Returned :
          [err |-> calls[i].err, account |-> calls[i].account]
              = DeriveAccountOf(calls[i].coin, input, calls[i].path)

\* the second call has run from its key derivation to its return between two
\* steps of the first call, and has succeeded
C27_Witness ==
    /\ Len(calls) = 2
    /\ calls[1].pc = "built"
    /\ calls[2].pc = "returned"
    /\ ~calls[2].err
    /\ calls[2].key > calls[1].key

(***************************************************************************)
(* claims about the private key of a returned account                      *)
(***************************************************************************)
\* whether private-key bytes belong to a public key: the 32 bytes of a scalar
\* whose point serializes to the public key, or for Solana the 32-byte seed
\* of the public key followed by the public key
KeyPairMatches(c, privateKey, publicKey) ==
    IF c = "SOL"
    THEN /\ Len(privateKey) = 32 + Len(publicKey)
         /\ SubSeq(privateKey, 33, Len(privateKey)) = publicKey
         /\ Ed25519PublicKey(SubSeq(privateKey, 1, 32)) = publicKey
    ELSE /\ Len(privateKey) = 32
         /\ validatePrivateKey(SetBytes(privateKey))
         /\ privateKey = KeyBytes(SetBytes(privateKey))
         /\ publicKey = IF c \in {"BTC", "DOGE"}
                        THEN SerializeCompressed(PubPoint(SetBytes(privateKey)))
                        ELSE FromECDSAPub(PubPoint(SetBytes(privateKey)))

\* C28 (as claimed): the account of a successful DeriveAccount carries in
\* PrivateKey the private key of its PublicKey and Address, for every coin.
C28_PrivateKeyReturned ==
    pc = "derived" =>
        KeyPairMatches(coin, acct.account.PrivateKey, acct.account.PublicKey)

(***************************************************************************)
(* claims about the wallet handed to the generator                         *)
(***************************************************************************)
\* C29 (as claimed): after every GenerateWallet call the wallet holds the
\* Mnemonic, the Seed and the PrivateKey of every account that it held when
\* it was first handed over.
C29_WalletUnchanged ==
    /\ wallet.Mnemonic = input.Mnemonic
    /\ wallet.Seed = input.Seed
    /\ \A i \in 1..Len(input.Accounts) :
          wallet.Accounts[i].PrivateKey = input.Accounts[i].PrivateKey

(***************************************************************************)
(* the two exported path parsers on one path                               *)
(***************************************************************************)
\* types.ParseDerivationPath: the zero path and no error, whatever the path
TypesParseDerivationPath(p) == [err |-> FALSE, dp |-> ZeroPath]

\* a call of types.ParseDerivationPath on the path that the parser of the
\* crypto package has parsed
TypesParse ==
    /\ pc = "parsed"
    /\ calls' = <<[op |-> "types.ParseDerivationPath", arg |-> path,
                   res |-> TypesParseDerivationPath(path)]>>
    /\ pc' = "compared"
    /\ UNCHANGED <<path, seed, parsed, formatted, derived, coin, acct, candidate, verdicts, cks, input, wallet, heap>>

NextParsers == Parse \/ TypesParse

SpecParsers == InitPath /\ [][NextParsers]_vars

\* C30 (as claimed): types.ParseDerivationPath returns an error exactly when
\* crypto.ParseDerivationPath does, and the same DerivationPath otherwise.
C30_ParsersAgree ==
    pc = "compared" =>
        /\ calls[1].res.err = parsed.err
        /\ ~parsed.err => calls[1].res.dp = parsed.dp


====
